---------------------------- MODULE Spec2Model ----------------------------
(***************************************************************************)
(* A model of the tracee controller of the debugger                        *)
(* (src/src/debugger/subordinate.rs) together with the operating-system    *)
(* side it drives through ptrace and wait: a single traced process with a  *)
(* byte-addressed memory and a register file.                              *)
(*                                                                         *)
(* Machine words are 8 bytes and are written as little-endian tuples of    *)
(* bytes, so that the bit operation of Subordinate::breakpoint,            *)
(* data & (usize::MAX - 255) | 0xcc, is "replace byte 0 by 0xCC".          *)
(***************************************************************************)
EXTENDS Integers, Sequences, FiniteSets, TLC

(***************************************************************************)
(* Bounds of the model.                                                    *)
(***************************************************************************)
\* the largest number of instructions one PTRACE_CONT lets the tracee run
MaxRun == 4
\* the largest number of OS requests that fail in one run of the debugger
MaxFailures == 1

(***************************************************************************)
(* Program constants.                                                      *)
(***************************************************************************)
\* std::mem::size_of::<usize>() on x86-64
WordLen == 8
\* the trap byte written by Subordinate::breakpoint
INT3 == 204
\* the number of stack words fetch_state snapshots
StackWords == 16

Byte == 0..255

(***************************************************************************)
(* The tracee's address space.  Addresses below MemLo and from MemHi on    *)
(* are unmapped: a peek or poke of a word that is not wholly mapped fails. *)
(* The program text starts at MemLo, the initial stack pointer is          *)
(* StackBase.                                                              *)
(***************************************************************************)
MemLo == 50
StackBase == 64
MemHi == 200
Mapped == MemLo..(MemHi - 1)

\* the little-endian word of a small number
W(n) == << n % 256, (n \div 256) % 256, (n \div 65536) % 256, 0, 0, 0, 0, 0 >>

\* the number held by a word whose upper five bytes are zero
WordVal(w) == w[1] + 256 * w[2] + 65536 * w[3]

\* the program text, one byte per address from MemLo on:
\*   50: EB 01   jmp 53
\*   52: 90      nop              (jumped over)
\*   53: B0 3C   mov al, 60
\*   55: 0F 05   syscall          (exit(rdi) when rax = 60)
\*   57..63: 00  padding
\* With its operand at 51 overwritten by 0xCC the jmp goes to 52 - 52 = 0.
Text == << 235, 1, 144, 176, 60, 15, 5, 0, 0, 0, 0, 0, 0, 0 >>

\* the initial stack, one word per 8 bytes from StackBase on:
\*   argc = 1, argv[0], NULL, envp[0], NULL,
\*   (AT_ENTRY, MemLo), (AT_PAGESZ, 4096), (AT_NULL, 0), then string data
StackImage == << 1, 184, 0, 192, 0, 9, 50, 6, 4096, 0, 0, 7, 7, 7, 7, 47, 98 >>

\* the arguments, environment and auxiliary vector StackImage holds
KernelImage ==
    [argv |-> << 184 >>, envp |-> << 192 >>, aux |-> << << 9, 50 >>, << 6, 4096 >> >>]

InitMem ==
    [a \in Mapped |->
        IF a < StackBase
        THEN Text[a - MemLo + 1]
        ELSE W(StackImage[((a - StackBase) \div WordLen) + 1])[((a - StackBase) % WordLen) + 1]]

WordMapped(a) == a \in Mapped /\ (a + WordLen - 1) \in Mapped

\* The tracee's memory is held as the bytes in which it differs from
\* InitMem: a function from the addresses of those bytes to their values.
NoPatch == [a \in {} |-> 0]

\* the byte at address a
ByteAt(mem, a) == IF a \in DOMAIN mem THEN mem[a] ELSE InitMem[a]

\* the word at byte address a (a need not be aligned)
WordAt(mem, a) == [i \in 1..WordLen |-> ByteAt(mem, a + i - 1)]

\* memory after the word w is stored at byte address a
StoreWord(mem, a, w) ==
    LET new(x) == IF x >= a /\ x < a + WordLen THEN w[x - a + 1] ELSE mem[x]
    IN  [x \in {y \in (DOMAIN mem) \cup (a..(a + WordLen - 1)) : new(y) # InitMem[y]}
            |-> new(x)]

(***************************************************************************)
(* Registers: the 27 fields of libc::user_regs_struct / Registers.         *)
(***************************************************************************)
RegNames ==
    { "r15", "r14", "r13", "r12", "rbp", "rbx", "r11", "r10", "r9", "r8",
      "rax", "rcx", "rdx", "rsi", "rdi", "orig_rax", "rip", "cs", "eflags",
      "rsp", "ss", "fs_base", "gs_base", "ds", "es", "fs", "gs" }

\* Registers::default()
DefaultRegisters == [n \in RegNames |-> 0]

\* the tracee's registers at its first stop after exec
EntryRegs ==
    [n \in RegNames |->
        CASE n = "rip" -> MemLo
          [] n = "rsp" -> StackBase
          [] n = "cs" -> 51
          [] n = "ss" -> 43
          [] n = "eflags" -> 512
          [] OTHER -> 0]

\* impl From<user_regs_struct> for Registers: every field copied by name
FromUserRegs(r) ==
    [r15 |-> r.r15, r14 |-> r.r14, r13 |-> r.r13, r12 |-> r.r12, rbp |-> r.rbp,
     rbx |-> r.rbx, r11 |-> r.r11, r10 |-> r.r10, r9 |-> r.r9, r8 |-> r.r8,
     rax |-> r.rax, rcx |-> r.rcx, rdx |-> r.rdx, rsi |-> r.rsi, rdi |-> r.rdi,
     orig_rax |-> r.orig_rax, rip |-> r.rip, cs |-> r.cs, eflags |-> r.eflags,
     rsp |-> r.rsp, ss |-> r.ss, fs_base |-> r.fs_base, gs_base |-> r.gs_base,
     ds |-> r.ds, es |-> r.es, fs |-> r.fs, gs |-> r.gs]

\* a conversion to the OS layout that crosses fs_base and gs_base
ToUserRegs_crossBases(r) ==
    [n \in RegNames |->
        CASE n = "fs_base" -> r.gs_base
          [] n = "gs_base" -> r.fs_base
          [] OTHER -> r[n]]

\* impl From<Registers> for user_regs_struct: every field copied by name
ToUserRegs(r) ==
    [r15 |-> r.r15, r14 |-> r.r14, r13 |-> r.r13, r12 |-> r.r12, rbp |-> r.rbp,
     rbx |-> r.rbx, r11 |-> r.r11, r10 |-> r.r10, r9 |-> r.r9, r8 |-> r.r8,
     rax |-> r.rax, rcx |-> r.rcx, rdx |-> r.rdx, rsi |-> r.rsi, rdi |-> r.rdi,
     orig_rax |-> r.orig_rax, rip |-> r.rip, cs |-> r.cs, eflags |-> r.eflags,
     rsp |-> r.rsp, ss |-> r.ss, fs_base |-> r.fs_base, gs_base |-> r.gs_base,
     ds |-> r.ds, es |-> r.es, fs |-> r.fs, gs |-> r.gs]

(***************************************************************************)
(* The tracee's processor: the effect of executing the instruction at rip. *)
(* ev is "ok" (the instruction retired), "trap" (an INT3 retired: rip is   *)
(* one past the trap byte), "segv" or "ill" (a fault: rip still at the     *)
(* instruction), or "exit" (the exit system call).                         *)
(***************************************************************************)
Sext8(b) == IF b >= 128 THEN b - 256 ELSE b

Exec(mem, r) ==
    LET rip == r.rip
        op == ByteAt(mem, rip)
    IN  IF rip \notin Mapped THEN [regs |-> r, ev |-> "segv"]
        ELSE CASE op = 144 ->                                   \* 90: nop
                    [regs |-> [r EXCEPT !.rip = rip + 1], ev |-> "ok"]
               [] op = INT3 ->                                  \* CC: int3
                    [regs |-> [r EXCEPT !.rip = rip + 1], ev |-> "trap"]
               [] op = 176 /\ (rip + 1) \in Mapped ->           \* B0 ib: mov al, ib
                    [regs |-> [r EXCEPT !.rip = rip + 2,
                                        !.rax = (r.rax - (r.rax % 256)) + ByteAt(mem, rip + 1)],
                     ev |-> "ok"]
               [] op = 235 /\ (rip + 1) \in Mapped ->           \* EB cb: jmp rel8
                    [regs |-> [r EXCEPT !.rip = rip + 2 + Sext8(ByteAt(mem, rip + 1))],
                     ev |-> "ok"]
               [] op = 15 /\ (rip + 1) \in Mapped /\ ByteAt(mem, rip + 1) = 5 ->  \* 0F 05: syscall
                    IF r.rax = 60
                    THEN [regs |-> r, ev |-> "exit"]
                    ELSE [regs |-> [r EXCEPT !.rip = rip + 2, !.rax = 0], ev |-> "ok"]
               [] OTHER -> [regs |-> r, ev |-> "ill"]

\* the tracee runs until an instruction does not simply retire, for at most
\* fuel instructions (then a signal from outside stops it)
RECURSIVE RunUntil(_, _, _)
RunUntil(mem, r, fuel) ==
    IF fuel = 0 THEN [regs |-> r, ev |-> "intr"]
    ELSE LET x == Exec(mem, r)
         IN  IF x.ev = "ok" THEN RunUntil(mem, x.regs, fuel - 1) ELSE x

(***************************************************************************)
(* Wait statuses, as the kernel encodes them and as wait() classifies      *)
(* them.                                                                   *)
(***************************************************************************)
RawStopped(sig) == sig * 256 + 127
RawExited(code) == code * 256
RawSignaled(sig) == sig

\* the raw status of the event ev of a resumed tracee
RawOf(ev, r) ==
    CASE ev = "ok" -> RawStopped(5)        \* SIGTRAP after a single step
      [] ev = "trap" -> RawStopped(5)      \* SIGTRAP from int3
      [] ev = "segv" -> RawStopped(11)
      [] ev = "ill" -> RawStopped(4)
      [] ev = "intr" -> RawStopped(2)
      [] ev = "kill" -> RawSignaled(9)
      [] OTHER -> RawExited(r.rdi % 256)

\* wait(): WIFSTOPPED, WIFEXITED, WIFCONTINUED, WIFSIGNALED, in that order
Classify(raw) ==
    IF raw % 256 = 127 THEN [kind |-> "Stopped", val |-> (raw \div 256) % 256]
    ELSE IF raw % 128 = 0 THEN [kind |-> "Exited", val |-> (raw \div 256) % 256]
    ELSE IF raw = 65535 THEN [kind |-> "Continued", val |-> 0]
    ELSE IF ((raw % 128) + 1) \div 2 > 0 /\ raw % 128 # 127
         THEN [kind |-> "Signaled", val |-> raw % 128]
    ELSE [kind |-> "Unknwon", val |-> raw]

(***************************************************************************)
(* State.                                                                  *)
(*   mem, tregs, tproc, pending   the tracee as the kernel holds it        *)
(*   phase                        "new", "ready" (spawn returned a handle) *)
(*                                "failed" (spawn returned an error) or    *)
(*                                "panicked" (the debugger was aborted)    *)
(*   wait_status, registers, stack, breakpoints, auxv, symbols             *)
(*                                the fields of Subordinate                *)
(*   errno                        the OS error number, at the location     *)
(*                                __errno_location() gives                 *)
(*   armed                        for each table entry, the tracee word at *)
(*                                its address just before it was armed     *)
(*   last                         the last call: its name, argument,       *)
(*                                result, the OS requests it issued, and   *)
(*                                what stopped the tracee                  *)
(*   nfail                        the number of OS requests made to fail   *)
(*   result                       the value the last call returned, for    *)
(*                                the calls that return one                *)
(*   stdout                       the lines the shell printed while it     *)
(*                                served the last command line             *)
(*   debug_info                   the field debug_info of Subordinate: the *)
(*                                table from program counters to lines     *)
(*   reader                       a running auxv::read: the loop it is in, *)
(*                                its cursor addr and its vector auxv      *)
(***************************************************************************)
VARIABLES mem, tregs, tproc, pending, phase, wait_status, registers, stack,
          breakpoints, auxv, symbols, errno, armed, last, nfail, result,
          stdout, debug_info, reader

vars == << mem, tregs, tproc, pending, phase, wait_status, registers, stack,
           breakpoints, auxv, symbols, errno, armed, last, nfail, result,
           stdout, debug_info, reader >>

\* no wait status is pending
NoStatus == -1

\* usize::MAX, the value of 0usize.wrapping_sub(1); no address of the model
UsizeMax == -1

EmptyTable == [a \in {} |-> W(0)]

(***************************************************************************)
(* A call runs on a record m holding the state it reads and writes:        *)
(* the tracee (mem, tregs, tproc, pending), the fields of Subordinate,     *)
(* and                                                                     *)
(*   sys     the fork, the child's exec and the file opening of spawn      *)
(*   img     what the kernel put on the tracee's stack at exec: the argv   *)
(*           and envp pointers and the (type, value) pairs of the          *)
(*           auxiliary vector before its AT_NULL pair                      *)
(*   elf     the executable file spawn opened: its header's entry address  *)
(*           and the symbols of its .symtab section                        *)
(*   log     the OS requests issued so far, each with its argument, its    *)
(*           outcome and the wait status stored when it was issued         *)
(*   failAt  the position in log of the request the OS fails (0: none)     *)
(*   err     "none", or the error the call returns ("Errno", "String",     *)
(*           "Io") or "panic"; once set, the rest of the call is skipped,  *)
(*           as by the ? operator                                          *)
(*   ret     the value returned by the last request or method              *)
(*   stopRip, stopEv   the tracee's rip when it last stopped, and why      *)
(***************************************************************************)
Failed(m) == m.err # "none"

Logged(m, op, arg, ok) ==
    Append(m.log, [op |-> op, arg |-> arg, ok |-> ok, ws |-> m.wait_status.kind])

\* errwrap: the request fails when the OS sets errno
Injected(m) == Len(m.log) + 1 = m.failAt

\* a ptrace request needs a tracee that is in a ptrace stop
Traced(m) == m.tproc = "traced"

\* Result<T>
Ok(v) == [ok |-> TRUE, val |-> v]

Err(e) == [ok |-> FALSE, val |-> e]

\* errwrap without the clearing of the error number
errwrap_noClear(loc, call) ==
    LET after == IF call.sets = 0 THEN loc ELSE call.sets
    IN  [errno |-> after,
         res |-> IF after = 0 THEN Ok(call.ret) ELSE Err(after)]

\* errwrap.  loc is the error number at the call, and call what the libc
\* function does: it returns call.ret, and sets the error number to
\* call.sets or, when call.sets = 0, leaves it alone.  The error number is
\* cleared, the function called, and the error number read.
errwrap(loc, call) ==
    LET cleared == 0
        after == IF call.sets = 0 THEN cleared ELSE call.sets
    IN  [errno |-> after,
         res |-> IF after = 0 THEN Ok(call.ret) ELSE Err(after)]

\* the wrappers of sys::ptrace and wait(), over what errwrap returns:
\* peek returns the value as usize; the others drop it, and return (), the
\* registers read or the status classified, written 0 here
Wrappers == {"peek", "poke", "getregs", "setregs", "singlestep", "cont", "wait"}

Wrapped(w, loc, call) ==
    LET r == errwrap(loc, call)
    IN  [errno |-> r.errno,
         res |-> IF ~r.res.ok THEN r.res
                 ELSE IF w = "peek" THEN Ok(call.ret)
                 ELSE Ok(0)]

\* fork(): a negative return of libc's fork is the failure, and its
\* negation the number of the Errno; 0 is the child, written Ok(0), and a
\* positive return the parent with the child's pid.  The error number
\* libc set is not read.
fork(call) ==
    IF call.ret < 0 THEN Err(-call.ret)
    ELSE Ok(call.ret)

\* ptrace::peek
ptrace_peek(m, addr) ==
    IF Failed(m) THEN m
    ELSE LET ok == ~Injected(m) /\ Traced(m) /\ WordMapped(addr)
         IN  [m EXCEPT !.log = Logged(m, "peek", addr, ok),
                       !.err = IF ok THEN "none" ELSE "Errno",
                       !.ret = IF ok THEN WordAt(m.mem, addr) ELSE W(0)]

\* ptrace::poke
ptrace_poke(m, addr, data) ==
    IF Failed(m) THEN m
    ELSE LET ok == ~Injected(m) /\ Traced(m) /\ WordMapped(addr)
         IN  [m EXCEPT !.log = Logged(m, "poke", addr, ok),
                       !.err = IF ok THEN "none" ELSE "Errno",
                       !.mem = IF ok THEN StoreWord(m.mem, addr, data) ELSE m.mem]

\* ptrace::getregs
ptrace_getregs(m) ==
    IF Failed(m) THEN m
    ELSE LET ok == ~Injected(m) /\ Traced(m)
         IN  [m EXCEPT !.log = Logged(m, "getregs", 0, ok),
                       !.err = IF ok THEN "none" ELSE "Errno",
                       !.ret = IF ok THEN m.tregs ELSE DefaultRegisters]

\* ptrace::setregs
ptrace_setregs(m, regs) ==
    IF Failed(m) THEN m
    ELSE LET ok == ~Injected(m) /\ Traced(m)
         IN  [m EXCEPT !.log = Logged(m, "setregs", 0, ok),
                       !.err = IF ok THEN "none" ELSE "Errno",
                       !.tregs = IF ok THEN regs ELSE m.tregs]

\* the tracee after it is resumed and has run to its next event x:
\* a stop leaves it in a ptrace stop, an exit or a kill leaves a zombie
Resumed(m, x) ==
    [m EXCEPT !.tregs = x.regs,
              !.tproc = IF x.ev \in {"exit", "kill"} THEN "zombie" ELSE "traced",
              !.pending = RawOf(x.ev, x.regs),
              !.stopRip = x.regs.rip,
              !.stopEv = x.ev]

\* what the world does to the resumed tracee: it lets it run, kills it, or
\* stops it with a signal before its next instruction
Env == {"run", "kill", "signal"}

\* ptrace::singlestep
ptrace_singlestep(m, env) ==
    IF Failed(m) THEN m
    ELSE LET ok == ~Injected(m) /\ Traced(m)
             x == CASE env = "kill" -> [regs |-> m.tregs, ev |-> "kill"]
                    [] env = "signal" -> [regs |-> m.tregs, ev |-> "intr"]
                    [] OTHER -> Exec(m.mem, m.tregs)
             m1 == [m EXCEPT !.log = Logged(m, "singlestep", 0, ok),
                             !.err = IF ok THEN "none" ELSE "Errno"]
         IN  IF ok THEN Resumed(m1, x) ELSE m1

\* ptrace::cont
ptrace_cont(m, env) ==
    IF Failed(m) THEN m
    ELSE LET ok == ~Injected(m) /\ Traced(m)
             x == CASE env = "kill" -> [regs |-> m.tregs, ev |-> "kill"]
                    [] env = "signal" -> [regs |-> m.tregs, ev |-> "intr"]
                    [] OTHER -> RunUntil(m.mem, m.tregs, MaxRun)
             m1 == [m EXCEPT !.log = Logged(m, "cont", 0, ok),
                             !.err = IF ok THEN "none" ELSE "Errno"]
         IN  IF ok THEN Resumed(m1, x) ELSE m1

\* wait(): returns the pending status, classified; reaps a zombie.  It
\* fails when interrupted (errno set) and when there is no child to wait for.
wait(m) ==
    IF Failed(m) THEN m
    ELSE LET ok == ~Injected(m) /\ m.pending # NoStatus
         IN  IF ok
             THEN [m EXCEPT !.log = Logged(m, "wait", 0, TRUE),
                            !.ret = Classify(m.pending),
                            !.pending = NoStatus,
                            !.tproc = IF m.tproc = "zombie" THEN "gone" ELSE m.tproc]
             ELSE [m EXCEPT !.log = Logged(m, "wait", 0, FALSE),
                            !.err = "Errno"]

(***************************************************************************)
(* Subordinate.                                                            *)
(***************************************************************************)
\* Subordinate::peek
peek(m, addr) == ptrace_peek(m, addr)

\* Subordinate::poke
poke(m, addr, data) == ptrace_poke(m, addr, data)

\* Subordinate::read_words: for i in 0..size { words.push(self.peek(..)?) }
RECURSIVE read_words_from(_, _, _, _, _)
read_words_from(m, from, size, i, words) ==
    IF Failed(m) THEN m
    ELSE IF i >= size THEN [m EXCEPT !.ret = words]
    ELSE LET m1 == peek(m, from + WordLen * i)
         IN  IF Failed(m1) THEN m1
             ELSE read_words_from(m1, from, size, i + 1, Append(words, m1.ret))

read_words(m, from, size) == read_words_from(m, from, size, 0, << >>)

\* the inner loop of read_bytes: push the bytes of a word from byte j on,
\* leaving the loop when bytes.len() == size right after a push
RECURSIVE push_bytes(_, _, _, _)
push_bytes(bytes, word, j, size) ==
    IF j > WordLen THEN bytes
    ELSE LET b1 == Append(bytes, word[j])
         IN  IF Len(b1) = size THEN b1 ELSE push_bytes(b1, word, j + 1, size)

\* Subordinate::read_bytes: for i in 0..(size / wordlen) + 1 { ... }
\* (m1, the state after the peek, is bound once: the one element of the set)
RECURSIVE read_bytes_from(_, _, _, _, _)
read_bytes_from(m, from, size, i, bytes) ==
    IF Failed(m) THEN m
    ELSE IF i >= (size \div WordLen) + 1 THEN [m EXCEPT !.ret = bytes]
    ELSE CHOOSE r \in { IF Failed(m1) THEN m1
                        ELSE read_bytes_from(m1, from, size, i + 1,
                                             push_bytes(bytes, m1.ret, 1, size)) :
                        m1 \in {peek(m, from + WordLen * i)} } : TRUE

read_bytes(m, from, size) == read_bytes_from(m, from, size, 0, << >>)

\* Option<i32>
None == [some |-> FALSE, val |-> 0]

Some(v) == [some |-> TRUE, val |-> v]

\* exit_status reporting the signal of a tracee terminated by a signal
exit_status_anyTermination(ws) ==
    IF ws.kind \in {"Exited", "Signaled"} THEN Some(ws.val) ELSE None

\* Subordinate::exit_status
exit_status(ws) ==
    IF ws.kind = "Exited" THEN Some(ws.val) ELSE None

\* breakpoint without the lookup of addr in the table
breakpoint_noLookup(m, addr) ==
    LET m1 == peek(m, addr)
        data == m1.ret
        m2 == poke(m1, addr, [data EXCEPT ![1] = INT3])
    IN  IF Failed(m1) THEN m1
        ELSE IF Failed(m2) THEN m2
        ELSE [m2 EXCEPT !.breakpoints =
                 [a \in (DOMAIN m2.breakpoints) \cup {addr} |->
                     IF a = addr THEN data ELSE m2.breakpoints[a]]]

\* breakpoint writing 0xcc as the whole word
breakpoint_wholeWord(m, addr) ==
    IF addr \in DOMAIN m.breakpoints THEN m
    ELSE LET m1 == peek(m, addr)
             data == m1.ret
             m2 == poke(m1, addr, W(INT3))
         IN  IF Failed(m1) THEN m1
             ELSE IF Failed(m2) THEN m2
             ELSE [m2 EXCEPT !.breakpoints =
                      [a \in (DOMAIN m2.breakpoints) \cup {addr} |->
                          IF a = addr THEN data ELSE m2.breakpoints[a]]]

\* breakpoint inserting the entry before the poke
breakpoint_insertFirst(m, addr) ==
    IF addr \in DOMAIN m.breakpoints THEN m
    ELSE LET m1 == peek(m, addr)
             data == m1.ret
             m2 == [m1 EXCEPT !.breakpoints =
                      [a \in (DOMAIN m1.breakpoints) \cup {addr} |->
                          IF a = addr THEN data ELSE m1.breakpoints[a]]]
         IN  IF Failed(m1) THEN m1
             ELSE poke(m2, addr, [data EXCEPT ![1] = INT3])

\* Subordinate::breakpoint
breakpoint(m, addr) ==
    IF addr \in DOMAIN m.breakpoints THEN m
    ELSE LET m1 == peek(m, addr)
             data == m1.ret
             m2 == poke(m1, addr, [data EXCEPT ![1] = INT3])
         IN  IF Failed(m1) THEN m1
             ELSE IF Failed(m2) THEN m2
             ELSE [m2 EXCEPT !.breakpoints =
                      [a \in (DOMAIN m2.breakpoints) \cup {addr} |->
                          IF a = addr THEN data ELSE m2.breakpoints[a]]]

\* handle_breakpoint without the poke of the saved word
handle_breakpoint_noRestore(m, ovf) ==
    IF Failed(m) THEN m
    ELSE IF m.registers.rip = 0 /\ ovf THEN [m EXCEPT !.err = "panic"]
    ELSE LET addr == IF m.registers.rip = 0 THEN UsizeMax ELSE m.registers.rip - 1
         IN  IF addr \in DOMAIN m.breakpoints
             THEN LET m1 == [m EXCEPT !.breakpoints =
                                 [a \in (DOMAIN m.breakpoints) \ {addr} |-> m.breakpoints[a]],
                                      !.registers = [m.registers EXCEPT !.rip = addr]]
                  IN  ptrace_setregs(m1, ToUserRegs(m1.registers))
             ELSE m

\* handle_breakpoint without the set_regs of the rewound rip
handle_breakpoint_noSetRegs(m, ovf) ==
    IF Failed(m) THEN m
    ELSE IF m.registers.rip = 0 /\ ovf THEN [m EXCEPT !.err = "panic"]
    ELSE LET addr == IF m.registers.rip = 0 THEN UsizeMax ELSE m.registers.rip - 1
         IN  IF addr \in DOMAIN m.breakpoints
             THEN LET data == m.breakpoints[addr]
                      m1 == [m EXCEPT !.breakpoints =
                                 [a \in (DOMAIN m.breakpoints) \ {addr} |-> m.breakpoints[a]],
                                      !.registers = [m.registers EXCEPT !.rip = addr]]
                  IN  poke(m1, m1.registers.rip, data)
             ELSE m

\* Subordinate::handle_breakpoint.  rip - 1 on u64: with overflow checks
\* (ovf) the subtraction panics at rip = 0, without them it wraps.
handle_breakpoint(m, ovf) ==
    IF Failed(m) THEN m
    ELSE IF m.registers.rip = 0 /\ ovf THEN [m EXCEPT !.err = "panic"]
    ELSE LET addr == IF m.registers.rip = 0 THEN UsizeMax ELSE m.registers.rip - 1
         IN  IF addr \in DOMAIN m.breakpoints
             THEN LET data == m.breakpoints[addr]
                      m1 == [m EXCEPT !.breakpoints =
                                 [a \in (DOMAIN m.breakpoints) \ {addr} |-> m.breakpoints[a]],
                                      !.registers = [m.registers EXCEPT !.rip = addr]]
                      m2 == poke(m1, m1.registers.rip, data)
                  IN  ptrace_setregs(m2, ToUserRegs(m2.registers))
             ELSE m

\* fetch_state inspecting the tracee whatever the wait status
fetch_state_alwaysInspect(m, ovf) ==
    LET m1 == wait(m)
        m2 == [m1 EXCEPT !.wait_status = m1.ret]
        m3 == ptrace_getregs(m2)
        m4 == [m3 EXCEPT !.registers = FromUserRegs(m3.ret)]
        m5 == read_words(m4, m4.registers.rsp, StackWords)
        m6 == [m5 EXCEPT !.stack = m5.ret]
    IN  IF Failed(m1) THEN m1
        ELSE IF Failed(m3) THEN m3
        ELSE IF Failed(m5) THEN m5
        ELSE handle_breakpoint(m6, ovf)

\* Subordinate::fetch_state
fetch_state(m, ovf) ==
    LET m1 == wait(m)
        m2 == [m1 EXCEPT !.wait_status = m1.ret]
        m3 == ptrace_getregs(m2)
        m4 == [m3 EXCEPT !.registers = FromUserRegs(m3.ret)]
        m5 == read_words(m4, m4.registers.rsp, StackWords)
        m6 == [m5 EXCEPT !.stack = m5.ret]
    IN  IF Failed(m1) THEN m1
        ELSE IF m2.wait_status.kind # "Stopped" THEN m2
        ELSE IF Failed(m3) THEN m3
        ELSE IF Failed(m5) THEN m5
        ELSE handle_breakpoint(m6, ovf)

\* step waiting for the tracee whatever single_step returned
step_waitAnyway(m, env, ovf) ==
    fetch_state([ptrace_singlestep(m, env) EXCEPT !.err = "none"], ovf)

\* Subordinate::step
step(m, env, ovf) == fetch_state(ptrace_singlestep(m, env), ovf)

\* cont waiting for the tracee whatever the cont request returned
cont_waitAnyway(m, env, ovf) ==
    fetch_state([ptrace_cont(m, env) EXCEPT !.err = "none"], ovf)

\* Subordinate::cont
cont(m, env, ovf) == fetch_state(ptrace_cont(m, env), ovf)

(***************************************************************************)
(* auxv::read                                                              *)
(***************************************************************************)
\* u64::from_le_bytes of bytes[0..8]
LeWord(bytes) == WordVal(SubSeq(bytes, 1, WordLen))

\* auxv::read_u64
read_u64(m, addr) ==
    CHOOSE r \in { IF Failed(m1) THEN m1 ELSE [m1 EXCEPT !.ret = LeWord(m1.ret)] :
                   m1 \in {read_bytes(m, addr, WordLen)} } : TRUE

\* advance_to_next_null_entry returning the address of the null word
RECURSIVE advance_to_null_entry_only(_, _)
advance_to_null_entry_only(m, addr) ==
    LET m1 == read_bytes(m, addr, WordLen)
    IN  IF Failed(m1) THEN m1
        ELSE IF LeWord(m1.ret) = 0 THEN [m1 EXCEPT !.ret = addr]
        ELSE advance_to_null_entry_only(m1, addr + WordLen)

\* auxv::advance_to_next_null_entry: returns the address past the null word
RECURSIVE advance_to_next_null_entry(_, _)
advance_to_next_null_entry(m, addr) ==
    LET m1 == read_bytes(m, addr, WordLen)
    IN  IF Failed(m1) THEN m1
        ELSE IF LeWord(m1.ret) = 0 THEN [m1 EXCEPT !.ret = addr + WordLen]
        ELSE advance_to_next_null_entry(m1, addr + WordLen)

\* one pass of the loop of advance_to_next_null_entry that leaves the
\* cursor where it is
skip_word_inPlace(m, addr) ==
    LET m1 == read_bytes(m, addr, WordLen)
    IN  IF Failed(m1) THEN m1
        ELSE [m1 EXCEPT !.ret = [addr |-> addr, brk |-> (LeWord(m1.ret) = 0)]]

\* one pass of the loop of advance_to_next_null_entry: the word at the
\* cursor is read, the cursor moves past it, and the loop is left when
\* the word is null
skip_word(m, addr) ==
    LET m1 == read_bytes(m, addr, WordLen)
    IN  IF Failed(m1) THEN m1
        ELSE [m1 EXCEPT !.ret = [addr |-> addr + WordLen,
                                 brk |-> (LeWord(m1.ret) = 0)]]

\* the variant of Entry that Entry::new matches each AT_* constant to
AtTag ==
    (0 :> "Null") @@ (3 :> "ProgramHeaderAddr") @@ (4 :> "ProgramHeaderSize")
    @@ (5 :> "ProgramHeaderCount") @@ (6 :> "PageSize") @@ (7 :> "BaseAddr")
    @@ (8 :> "Flags") @@ (9 :> "EntryAddr") @@ (11 :> "UID") @@ (12 :> "EUID")
    @@ (13 :> "GID") @@ (14 :> "EGID") @@ (15 :> "PlatformAddr")
    @@ (16 :> "HwCap") @@ (17 :> "ClockTick") @@ (19 :> "DataCacheBlockSize")
    @@ (20 :> "InstructionCacheBlockSize") @@ (21 :> "UnifiedCacheBlockSize")
    @@ (22 :> "Ignore") @@ (23 :> "Secure") @@ (24 :> "BasePlatformAddr")
    @@ (25 :> "Random") @@ (26 :> "HwCap2") @@ (31 :> "ExecutableAddr")
    @@ (33 :> "SysinfoHeaderAddr") @@ (40 :> "L1InstructionCacheSize")
    @@ (41 :> "L1InstructionCacheGeometry") @@ (42 :> "L1DataCacheSize")
    @@ (43 :> "L1DataCacheGeometry") @@ (44 :> "L2InstructionCacheSize")
    @@ (45 :> "L2InstructionCacheGeometry") @@ (46 :> "L3InstructionCacheSize")
    @@ (47 :> "L3InstructionCacheGeometry")

\* auxv::Entry::new.  Null and Ignore carry no value, Secure carries
\* value != 0, Unknown carries the type and the value.
EntryNew(t, value) ==
    IF t \notin DOMAIN AtTag THEN [tag |-> "Unknown", t |-> t, value |-> value]
    ELSE IF AtTag[t] \in {"Null", "Ignore"} THEN [tag |-> AtTag[t], t |-> 0, value |-> 0]
    ELSE IF AtTag[t] = "Secure" THEN [tag |-> "Secure", t |-> 0, value |-> (value # 0)]
    ELSE [tag |-> AtTag[t], t |-> 0, value |-> value]

\* the loop of auxv::read over (type, value) pairs
RECURSIVE read_pairs(_, _, _)
read_pairs(m, addr, entries) ==
    LET m1 == read_u64(m, addr)
        m2 == read_u64(m1, addr + WordLen)
    IN  IF Failed(m1) THEN m1
        ELSE IF m1.ret = 0 THEN [m1 EXCEPT !.ret = entries]
        ELSE IF Failed(m2) THEN m2
        ELSE read_pairs(m2, addr + 2 * WordLen,
                        Append(entries, EntryNew(m1.ret, m2.ret)))

\* one pass of the loop of auxv::read: the loop is left at a null type;
\* otherwise the value is read, the entry pushed and the cursor moved
\* past the pair
read_pair(m, addr, entries) ==
    LET m1 == read_u64(m, addr)
        m2 == read_u64(m1, addr + WordLen)
    IN  IF Failed(m1) THEN m1
        ELSE IF m1.ret = 0
             THEN [m1 EXCEPT !.ret = [addr |-> addr, brk |-> TRUE, auxv |-> entries]]
        ELSE IF Failed(m2) THEN m2
        ELSE [m2 EXCEPT !.ret = [addr |-> addr + 2 * WordLen, brk |-> FALSE,
                                 auxv |-> Append(entries, EntryNew(m1.ret, m2.ret))]]

\* auxv::read giving no entries when the tracee cannot be read
auxv_read_tolerant(m) ==
    LET m1 == advance_to_next_null_entry(m, m.registers.rsp + WordLen)
        m2 == advance_to_next_null_entry(m1, m1.ret)
        m3 == read_pairs(m2, m2.ret, << >>)
        none == [m1 EXCEPT !.err = m.err, !.ret = << >>]
    IN  IF Failed(m1) THEN none
        ELSE IF Failed(m2) THEN none
        ELSE m3

\* auxv::read
auxv_read(m) ==
    LET m1 == advance_to_next_null_entry(m, m.registers.rsp + WordLen)
        m2 == advance_to_next_null_entry(m1, m1.ret)
    IN  IF Failed(m1) THEN m1
        ELSE IF Failed(m2) THEN m2
        ELSE read_pairs(m2, m2.ret, << >>)

\* elf::types::STB_WEAK, of the bindings STB_LOCAL (0), STB_GLOBAL (1) and
\* STB_WEAK (2) of a symbol
STB_WEAK == 2

\* no executable file
NoElf == [entry |-> 0, symtab |-> << >>, rows |-> << >>]

\* the executable file of the tracee: its entry address is the address of
\* the program text, where the kernel loaded it; a function symbol and an
\* object symbol, both global; and the rows of its line program, one for
\* the jmp and one for the mov
ElfFile ==
    [entry |-> MemLo,
     symtab |-> << [name |-> << "f" >>, value |-> MemLo, size |-> 3,
                    bind |-> 1, symtype |-> 2],
                   [name |-> << "v" >>, value |-> StackBase, size |-> WordLen,
                    bind |-> 1, symtype |-> 1] >>,
     rows |-> << [address |-> MemLo, line |-> 1, end_sequence |-> FALSE],
                 [address |-> MemLo + 3, line |-> 2, end_sequence |-> FALSE] >>]

\* DebugInfo before a file is loaded
NoDebugInfo == [pc_to_line |-> << >>]

\* the table pc_to_line DebugInfo::new builds from the rows of the line
\* program: a row that ends a sequence is skipped, and an insert under an
\* address already present replaces the line.  The key is row.address().
pc_to_line(rows) ==
    LET kept == { i \in DOMAIN rows : ~rows[i].end_sequence }
    IN  [a \in { rows[i].address : i \in kept } |->
            LET i == CHOOSE i \in kept :
                        /\ rows[i].address = a
                        /\ \A j \in kept : rows[j].address = a => j <= i
            IN  [line |-> rows[i].line]]

\* DebugInfo::line_info
line_info(di, rip) ==
    IF rip \in DOMAIN di.pc_to_line THEN Some(di.pc_to_line[rip]) ELSE None

\* shift_symbols shifting the weak symbols too
shift_symbols_all(syms, amount) ==
    [i \in DOMAIN syms |-> [syms[i] EXCEPT !.value = @ + amount]]

\* Subordinate::shift_symbols
shift_symbols(syms, amount) ==
    [i \in DOMAIN syms |->
        IF syms[i].bind = STB_WEAK THEN syms[i]
        ELSE [syms[i] EXCEPT !.value = @ + amount]]

\* the end of spawn shifting the symbols for every AT_ENTRY entry
shift_to_entry_everyEntry(m, elf) ==
    IF Failed(m) THEN m
    ELSE LET at == {i \in DOMAIN m.ret : m.ret[i].tag = "EntryAddr"}
             total == Len(SelectSeq(m.ret, LAMBDA x : x.tag = "EntryAddr"))
             first == CHOOSE i \in at : \A j \in at : i <= j
         IN  IF at = {} THEN [m EXCEPT !.auxv = m.ret]
             ELSE [m EXCEPT !.symbols =
                               shift_symbols(@, total * (m.ret[first].value - elf.entry)),
                            !.auxv = m.ret]

\* the end of spawn, from the auxiliary vector m.ret that auxv::read
\* returned: the symbols are shifted by the first AT_ENTRY entry minus the
\* file's entry address, and the vector is stored
shift_to_entry(m, elf) ==
    IF Failed(m) THEN m
    ELSE LET at == {i \in DOMAIN m.ret : m.ret[i].tag = "EntryAddr"}
             first == CHOOSE i \in at : \A j \in at : i <= j
         IN  IF at = {} THEN [m EXCEPT !.auxv = m.ret]
             ELSE [m EXCEPT !.symbols =
                               shift_symbols(@, m.ret[first].value - elf.entry),
                            !.auxv = m.ret]

\* spawn without the test of the command vector's length
spawn_noLengthTest(m, cmd, elf, forkOk, execOk, fileOk, ovf) ==
    IF ~forkOk THEN [m EXCEPT !.sys = Append(@, "fork"), !.err = "Errno"]
    ELSE LET \* the child: stopped by its exec, or exited when exec failed
             m0 == IF execOk
                   THEN [m EXCEPT !.sys = @ \o << "fork", "exec" >>,
                                  !.tproc = "traced", !.pending = RawStopped(5),
                                  !.stopRip = m.tregs.rip, !.stopEv = "exec"]
                   ELSE [m EXCEPT !.sys = @ \o << "fork", "exec" >>,
                                  !.tproc = "zombie", !.pending = RawExited(1),
                                  !.stopEv = "exit"]
             mo == [m0 EXCEPT !.sys = Append(@, "open"), !.elf = elf,
                              !.debug_info = [pc_to_line |-> pc_to_line(elf.rows)],
                              !.symbols = elf.symtab]
             m1 == fetch_state(mo, ovf)
         IN  IF ~fileOk THEN [m0 EXCEPT !.sys = Append(@, "open"), !.err = "Io"]
             ELSE IF Failed(m1) THEN m1
             ELSE shift_to_entry(auxv_read(m1), elf)

\* Subordinate::spawn.  cmd is the command vector's length and elf the
\* executable file it names; forkOk, execOk and fileOk say whether the
\* fork, the child's exec and the opening and parsing of the file succeed.
\* sys records the fork, the child's exec and the opening of the file.
\* The kernel computes AT_ENTRY from the file's entry address, so that
\* the subtraction of the entry address does not overflow.
spawn(m, cmd, elf, forkOk, execOk, fileOk, ovf) ==
    IF cmd = 0 THEN [m EXCEPT !.err = "String"]
    ELSE IF ~forkOk THEN [m EXCEPT !.sys = Append(@, "fork"), !.err = "Errno"]
    ELSE LET \* the child: stopped by its exec, or exited when exec failed
             m0 == IF execOk
                   THEN [m EXCEPT !.sys = @ \o << "fork", "exec" >>,
                                  !.tproc = "traced", !.pending = RawStopped(5),
                                  !.stopRip = m.tregs.rip, !.stopEv = "exec"]
                   ELSE [m EXCEPT !.sys = @ \o << "fork", "exec" >>,
                                  !.tproc = "zombie", !.pending = RawExited(1),
                                  !.stopEv = "exit"]
             mo == [m0 EXCEPT !.sys = Append(@, "open"), !.elf = elf,
                              !.debug_info = [pc_to_line |-> pc_to_line(elf.rows)],
                              !.symbols = elf.symtab]
             m1 == fetch_state(mo, ovf)
         IN  IF ~fileOk THEN [m0 EXCEPT !.sys = Append(@, "open"), !.err = "Io"]
             ELSE IF Failed(m1) THEN m1
             ELSE shift_to_entry(auxv_read(m1), elf)

(***************************************************************************)
(* Actions: one per call on Subordinate.                                   *)
(***************************************************************************)
\* the positions, among the OS requests of one call, at which the OS is
\* made to fail (0: nowhere).  A step or cont issues its resume request
\* first, then wait, getregs, 16 stack peeks (4..19) and, on a hit, poke
\* (20) and setregs (21); spawn issues wait, getregs, 16 stack peeks
\* (3..18) and the peeks of the auxiliary vector (19 on); breakpoint
\* issues a peek and a poke.  Every request of every call is of a kind
\* that fails at one of these positions.
FailPoints == {0, 1, 2, 3, 4, 19, 20, 21}

\* the positions at which the next call may have the OS fail
MayFail == IF nfail < MaxFailures THEN FailPoints ELSE {0}

\* the addresses breakpoint() is called with: the unmapped address below
\* the program text, the address of the first instruction (the jmp) and,
\* in the same word, the address of the nop it jumps over
BreakAddrs == {MemLo - 1, MemLo, MemLo + 2}

\* the state a call starts from, with an empty log
Start(f) ==
    [mem |-> mem, tregs |-> tregs, tproc |-> tproc, pending |-> pending,
     wait_status |-> wait_status, registers |-> registers, stack |-> stack,
     breakpoints |-> breakpoints, auxv |-> auxv, symbols |-> symbols,
     debug_info |-> debug_info,
     log |-> << >>, sys |-> << >>, failAt |-> f, err |-> "none", ret |-> 0,
     elf |-> last.elf, img |-> last.img, stopRip |-> last.stopRip,
     stopEv |-> last.stopEv]

\* the state a call leaves
Frame(m, op, arg) ==
    /\ mem' = m.mem
    /\ tregs' = m.tregs
    /\ tproc' = m.tproc
    /\ pending' = m.pending
    /\ wait_status' = m.wait_status
    /\ registers' = m.registers
    /\ stack' = m.stack
    /\ breakpoints' = m.breakpoints
    /\ auxv' = m.auxv
    /\ symbols' = m.symbols
    /\ debug_info' = m.debug_info
    /\ errno' = IF m.log = << >> THEN errno
                ELSE errwrap(errno, [ret |-> 0,
                                     sets |-> IF m.log[Len(m.log)].ok
                                              THEN 0 ELSE 5]).errno
    /\ armed' = [a \in DOMAIN m.breakpoints |->
                    IF a \in DOMAIN breakpoints THEN armed[a] ELSE WordAt(mem, a)]
    /\ last' = [op |-> op, arg |-> arg, res |-> m.err, log |-> m.log,
                sys |-> m.sys, elf |-> m.elf, img |-> m.img,
                stopRip |-> m.stopRip, stopEv |-> m.stopEv]
    /\ nfail' = IF m.failAt > 0 /\ Len(m.log) >= m.failAt THEN nfail + 1 ELSE nfail

\* the value of a call that returns none
NoResult == << >>

\* no auxv::read is running
Idle == [stage |-> "idle", addr |-> 0, auxv |-> << >>]

\* the return of a call of type Result<()>
Commit(m, op, arg) ==
    /\ Frame(m, op, arg)
    /\ result' = NoResult
    /\ stdout' = stdout
    /\ reader' = reader

\* the return of a call of type Result<Vec<_>>
CommitValue(m, op, arg) ==
    /\ Frame(m, op, arg)
    /\ result' = IF Failed(m) THEN NoResult ELSE m.ret
    /\ stdout' = stdout
    /\ reader' = reader

\* the outcomes of a call whose outcome under overflow checks is mT and
\* without them mF: they differ only when the call reaches rip - 1 at
\* rip = 0, where the build decides
Outcomes(mT, mF) == IF mT.err = "panic" THEN {mT, mF} ELSE {mT}

Spawn ==
    /\ phase = "new"
    /\ \E cmd \in 0..1, forkOk \in BOOLEAN, execOk \in BOOLEAN, fileOk \in BOOLEAN,
          f \in MayFail :
          \E s \in {Start(f)} :
          \E mT \in {spawn(s, cmd, ElfFile, forkOk, execOk, fileOk, TRUE)} :
          \E m \in Outcomes(mT, spawn(s, cmd, ElfFile, forkOk, execOk, fileOk, FALSE)) :
             /\ Commit(m, "spawn", cmd)
             /\ phase' = IF Failed(m) THEN "failed" ELSE "ready"

Step ==
    /\ phase = "ready"
    /\ \E env \in Env, f \in MayFail :
          \E s \in {Start(f)} :
          \E mT \in {step(s, env, TRUE)} :
          \E m \in Outcomes(mT, step(s, env, FALSE)) :
             /\ Commit(m, "step", 0)
             /\ phase' = IF m.err = "panic" THEN "panicked" ELSE phase

Cont ==
    /\ phase = "ready"
    /\ \E env \in Env, f \in MayFail :
          \E s \in {Start(f)} :
          \E mT \in {cont(s, env, TRUE)} :
          \E m \in Outcomes(mT, cont(s, env, FALSE)) :
             /\ Commit(m, "cont", 0)
             /\ phase' = IF m.err = "panic" THEN "panicked" ELSE phase

Breakpoint ==
    /\ phase = "ready"
    /\ \E addr \in BreakAddrs, f \in MayFail \cap (0..2) :
          \E m \in {breakpoint(Start(f), addr)} :
             Commit(m, "breakpoint", addr)
    /\ UNCHANGED phase

\* the words of the stack the kernel builds from img: argc, the argv
\* pointers, a null word, the envp pointers, a null word, the pairs of the
\* auxiliary vector, and the AT_NULL pair
RECURSIVE Flat(_)
Flat(pairs) == IF pairs = << >> THEN << >> ELSE Head(pairs) \o Flat(Tail(pairs))

StackOf(img) ==
    << Len(img.argv) >> \o img.argv \o << 0 >> \o img.envp \o << 0 >>
       \o Flat(img.aux) \o << 0, 0 >>

\* the memory m with the words ws stored from address a on
RECURSIVE LayWords(_, _, _)
LayWords(m, a, ws) ==
    IF ws = << >> THEN m
    ELSE LayWords(StoreWord(m, a, W(Head(ws))), a + WordLen, Tail(ws))

\* the state before spawn, of a program the kernel will exec with the
\* stack of img
Booted(img) ==
    /\ mem = LayWords(NoPatch, StackBase, StackOf(img))
    /\ tregs = EntryRegs
    /\ tproc = "none"
    /\ pending = NoStatus
    /\ phase = "new"
    /\ wait_status = [kind |-> "Unknwon", val |-> 0]
    /\ registers = DefaultRegisters
    /\ stack = << >>
    /\ breakpoints = EmptyTable
    /\ auxv = << >>
    /\ symbols = << >>
    /\ errno = 0
    /\ armed = EmptyTable
    /\ last = [op |-> "none", arg |-> 0, res |-> "none", log |-> << >>,
               sys |-> << >>, elf |-> NoElf, img |-> img,
               stopRip |-> 0, stopEv |-> "none"]
    /\ nfail = 0
    /\ result = NoResult
    /\ stdout = << >>
    /\ debug_info = NoDebugInfo
    /\ reader = Idle

Init == Booted(KernelImage)

Next == Spawn \/ Step \/ Cont \/ Breakpoint

Spec == Init /\ [][Next]_vars
(***************************************************************************)
(* The same calls on a tracee whose program is a loop: two nops and a jmp  *)
(* back to the first, so that an address is executed again and again.      *)
(***************************************************************************)
\* the program text of the loop, from MemLo on: 90, 90, EB FC
LoopText == << 144, 144, 235, 252 >>

InitLoop ==
    /\ mem = LayWords([a \in MemLo..(MemLo + Len(LoopText) - 1) |->
                          LoopText[a - MemLo + 1]],
                      StackBase, StackOf(KernelImage))
    /\ tregs = EntryRegs
    /\ tproc = "none"
    /\ pending = NoStatus
    /\ phase = "new"
    /\ wait_status = [kind |-> "Unknwon", val |-> 0]
    /\ registers = DefaultRegisters
    /\ stack = << >>
    /\ breakpoints = EmptyTable
    /\ auxv = << >>
    /\ symbols = << >>
    /\ errno = 0
    /\ armed = EmptyTable
    /\ last = [op |-> "none", arg |-> 0, res |-> "none", log |-> << >>,
               sys |-> << >>, elf |-> NoElf, img |-> KernelImage,
               stopRip |-> 0, stopEv |-> "none"]
    /\ nfail = 0
    /\ result = NoResult
    /\ stdout = << >>
    /\ debug_info = NoDebugInfo
    /\ reader = Idle

SpecLoop == InitLoop /\ [][Next]_vars

(***************************************************************************)
(* The same calls on a tracee whose program jumps to address 0, so that    *)
(* it stops with rip = 0.                                                  *)
(***************************************************************************)
\* the program text of the jump, from MemLo on: 90, 90, EB CA (jmp 0)
JumpText == << 144, 144, 235, 202 >>

InitJump ==
    /\ mem = LayWords([a \in MemLo..(MemLo + Len(JumpText) - 1) |->
                          JumpText[a - MemLo + 1]],
                      StackBase, StackOf(KernelImage))
    /\ tregs = EntryRegs
    /\ tproc = "none"
    /\ pending = NoStatus
    /\ phase = "new"
    /\ wait_status = [kind |-> "Unknwon", val |-> 0]
    /\ registers = DefaultRegisters
    /\ stack = << >>
    /\ breakpoints = EmptyTable
    /\ auxv = << >>
    /\ symbols = << >>
    /\ errno = 0
    /\ armed = EmptyTable
    /\ last = [op |-> "none", arg |-> 0, res |-> "none", log |-> << >>,
               sys |-> << >>, elf |-> NoElf, img |-> KernelImage,
               stopRip |-> 0, stopEv |-> "none"]
    /\ nfail = 0
    /\ result = NoResult
    /\ stdout = << >>
    /\ debug_info = NoDebugInfo
    /\ reader = Idle

SpecJump == InitJump /\ [][Next]_vars

(***************************************************************************)
(* Reads of the tracee's memory through the handle spawn returned:         *)
(* read_bytes, as the shell's disassembly and Subordinate::instructions    *)
(* call it, and read_words, between calls of breakpoint.                   *)
(***************************************************************************)
\* the largest number of whole words a read asks for
MaxReadWords == 2

\* the sizes given to read_bytes: 0, sizes within a word, the multiples of
\* the word length and the sizes next to them
ReadSizes == 0..(WordLen * MaxReadWords + 1)

\* the addresses read from: the program text (where breakpoints are
\* armed), the stack, and the last mapped word
ReadAddrs == {MemLo, StackBase, MemHi - WordLen}

\* the state before spawn, as the record a call runs on
Boot ==
    [mem |-> NoPatch, tregs |-> EntryRegs, tproc |-> "none", pending |-> NoStatus,
     wait_status |-> [kind |-> "Unknwon", val |-> 0],
     registers |-> DefaultRegisters, stack |-> << >>,
     breakpoints |-> EmptyTable, auxv |-> << >>, symbols |-> << >>,
     debug_info |-> NoDebugInfo,
     log |-> << >>, sys |-> << >>, failAt |-> 0, err |-> "none", ret |-> 0,
     elf |-> NoElf, img |-> KernelImage, stopRip |-> 0, stopEv |-> "none"]

\* the state after a spawn in which nothing fails, with no OS request
\* left to be made to fail
InitRead ==
    \E h \in {spawn(Boot, 1, ElfFile, TRUE, TRUE, TRUE, TRUE)} :
       /\ mem = h.mem
       /\ tregs = h.tregs
       /\ tproc = h.tproc
       /\ pending = h.pending
       /\ phase = "ready"
       /\ wait_status = h.wait_status
       /\ registers = h.registers
       /\ stack = h.stack
       /\ breakpoints = h.breakpoints
       /\ auxv = h.auxv
       /\ symbols = h.symbols
       /\ errno = 0
       /\ armed = EmptyTable
       /\ last = [op |-> "spawn", arg |-> 1, res |-> h.err, log |-> h.log,
                  sys |-> h.sys, elf |-> h.elf, img |-> h.img,
                  stopRip |-> h.stopRip, stopEv |-> h.stopEv]
       /\ nfail = MaxFailures
       /\ result = NoResult
       /\ stdout = << >>
       /\ debug_info = h.debug_info
       /\ reader = Idle

ReadBytes ==
    /\ phase = "ready"
    /\ \E from \in ReadAddrs, size \in ReadSizes :
          \E m \in {read_bytes(Start(0), from, size)} :
             CommitValue(m, "read_bytes", << from, size >>)
    /\ UNCHANGED phase

ReadWords ==
    /\ phase = "ready"
    /\ \E from \in ReadAddrs, size \in 0..MaxReadWords :
          \E m \in {read_words(Start(0), from, size)} :
             CommitValue(m, "read_words", << from, size >>)
    /\ UNCHANGED phase

NextRead == Breakpoint \/ ReadBytes \/ ReadWords

SpecRead == InitRead /\ [][NextRead]_vars

(***************************************************************************)
(* Spawns of executable files with any symbol table and any load bias.     *)
(***************************************************************************)
\* the largest number of symbols of a symbol table
MaxSymbols == 2

\* the file values of symbols: zero, a small offset, a text address
SymValues == {0, 4, MemLo}

\* the symbol tables of the files: up to MaxSymbols symbols, each local,
\* global or weak
SymTabs ==
    UNION {[1..n -> [value : SymValues, bind : 0..STB_WEAK]] : n \in 0..MaxSymbols}

\* the entry addresses of the files' headers: the address the tracee is
\* entered at (no load bias), and lower ones (the file was loaded higher)
ElfEntries == {MemLo, MemLo - 16, 2}

Elfs == [entry : ElfEntries, symtab : SymTabs, rows : {<< >>}]

\* a spawn, in which no OS request fails, of any of the files
SpawnElf ==
    /\ phase = "new"
    /\ \E elf \in Elfs :
          \E m \in {spawn(Start(0), 1, elf, TRUE, TRUE, TRUE, TRUE)} :
             /\ Commit(m, "spawn", 1)
             /\ phase' = IF Failed(m) THEN "failed" ELSE "ready"

SpecSym == Init /\ [][SpawnElf]_vars

(***************************************************************************)
(* Spawns of a program exec'd with any arguments, environment and          *)
(* auxiliary vector.                                                       *)
(***************************************************************************)
\* the largest number of argv pointers, and of envp pointers
MaxArgs == 2

\* the largest number of pairs of the auxiliary vector before AT_NULL
MaxAux == 2

\* the (type, value) pairs: AT_ENTRY with the entry address, and AT_PAGESZ,
\* AT_IGNOREPPC, AT_SECURE and a type Entry::new does not know, with
\* a zero and a nonzero value
AuxPairs == {<< 9, MemLo >>} \cup ({6, 22, 23, 99} \X {0, 4096})

Images ==
    [argv : {[i \in 1..n |-> 184] : n \in 0..MaxArgs},
     envp : {[i \in 1..n |-> 192] : n \in 0..MaxArgs},
     aux : UNION {[1..n -> AuxPairs] : n \in 0..MaxAux}]

InitAuxv == \E img \in Images : Booted(img)

\* a spawn of the tracee's file in which no OS request fails
SpawnFile ==
    /\ phase = "new"
    /\ \E m \in {spawn(Start(0), 1, ElfFile, TRUE, TRUE, TRUE, TRUE)} :
          /\ Commit(m, "spawn", 1)
          /\ phase' = IF Failed(m) THEN "failed" ELSE "ready"

SpecAuxv == InitAuxv /\ [][SpawnFile]_vars

(***************************************************************************)
(* Spawns of a program exec'd with no, one or several AT_ENTRY entries,    *)
(* and the calls on the handle that follow.                                *)
(***************************************************************************)
\* the (type, value) pairs: AT_ENTRY with the address the file's header
\* gives and with a higher one, and AT_PAGESZ
RelocPairs == { << 9, MemLo >>, << 9, MemLo + 16 >>, << 6, 4096 >> }

RelocImages ==
    [argv : { << 184 >> }, envp : { << 192 >> },
     aux : UNION {[1..n -> RelocPairs] : n \in 0..MaxAux}]

\* the state before spawn, with no OS request left to be made to fail
InitReloc ==
    \E img \in RelocImages :
       /\ mem = LayWords(NoPatch, StackBase, StackOf(img))
       /\ tregs = EntryRegs
       /\ tproc = "none"
       /\ pending = NoStatus
       /\ phase = "new"
       /\ wait_status = [kind |-> "Unknwon", val |-> 0]
       /\ registers = DefaultRegisters
       /\ stack = << >>
       /\ breakpoints = EmptyTable
       /\ auxv = << >>
       /\ symbols = << >>
       /\ errno = 0
       /\ armed = EmptyTable
       /\ last = [op |-> "none", arg |-> 0, res |-> "none", log |-> << >>,
                  sys |-> << >>, elf |-> NoElf, img |-> img,
                  stopRip |-> 0, stopEv |-> "none"]
       /\ nfail = MaxFailures
       /\ result = NoResult
       /\ stdout = << >>
       /\ debug_info = NoDebugInfo
       /\ reader = Idle

NextReloc == SpawnFile \/ Step \/ Cont \/ Breakpoint \/ ReadWords

SpecReloc == InitReloc /\ [][NextReloc]_vars

(***************************************************************************)
(* auxv::read pass by pass of its loops, on a tracee stopped at its entry  *)
(* whose stack may or may not hold the null words the reader looks for.    *)
(***************************************************************************)
\* the number of words from the initial stack pointer to the end of the
\* tracee's memory
StackRoom == (MemHi - StackBase) \div WordLen

\* the stacks the kernel builds: up to MaxArgs argv and envp pointers and
\* up to MaxAux pairs, AT_ENTRY or AT_PAGESZ
KernelStacks ==
    { StackOf(img) :
         img \in [argv : {[i \in 1..n |-> 184] : n \in 0..MaxArgs},
                  envp : {[i \in 1..n |-> 192] : n \in 0..MaxArgs},
                  aux : UNION {[1..n -> {<< 9, MemLo >>, << 6, 4096 >>}] :
                                  n \in 0..MaxAux}] }

\* stacks without the null word of argv, of envp, or of the vector: the
\* words are 7 up to the end of the memory but for the null words at the
\* positions nulls
OpenStacks ==
    { [i \in 1..StackRoom |-> IF i \in nulls THEN 0 ELSE 7] :
         nulls \in { {}, {2}, {2, 4} } }

\* the tracee after its exec, as spawn finds it before fetch_state, with
\* the words ws on its stack
Execed(ws) ==
    [Boot EXCEPT !.mem = LayWords(NoPatch, StackBase, ws),
                 !.tproc = "traced", !.pending = RawStopped(5),
                 !.stopRip = EntryRegs.rip, !.stopEv = "exec",
                 !.sys = << "fork", "exec", "open" >>,
                 !.elf = ElfFile, !.symbols = ElfFile.symtab,
                 !.debug_info = [pc_to_line |-> pc_to_line(ElfFile.rows)]]

\* spawn has fetched the state of the stopped tracee and enters
\* auxv::read: the cursor is at rsp + 8
InitWalk ==
    \E ws \in KernelStacks \cup OpenStacks :
       \E h \in {fetch_state(Execed(ws), TRUE)} :
          /\ mem = h.mem
          /\ tregs = h.tregs
          /\ tproc = h.tproc
          /\ pending = h.pending
          /\ phase = "new"
          /\ wait_status = h.wait_status
          /\ registers = h.registers
          /\ stack = h.stack
          /\ breakpoints = h.breakpoints
          /\ auxv = h.auxv
          /\ symbols = h.symbols
          /\ errno = 0
          /\ armed = EmptyTable
          /\ last = [op |-> "fetch_state", arg |-> 0, res |-> h.err, log |-> h.log,
                     sys |-> h.sys, elf |-> h.elf, img |-> h.img,
                     stopRip |-> h.stopRip, stopEv |-> h.stopEv]
          /\ nfail = MaxFailures
          /\ result = NoResult
          /\ stdout = << >>
          /\ debug_info = h.debug_info
          /\ reader = [stage |-> "argv", addr |-> h.registers.rsp + WordLen,
                       auxv |-> << >>]

\* a pass of the loop of advance_to_next_null_entry, over argv or envp
SkipWord ==
    /\ reader.stage \in {"argv", "envp"}
    /\ \E m \in {skip_word(Start(0), reader.addr)} :
          /\ Frame(m, "advance_to_next_null_entry", reader.addr)
          /\ reader' = IF Failed(m) THEN [reader EXCEPT !.stage = "failed"]
                       ELSE [reader EXCEPT
                               !.addr = m.ret.addr,
                               !.stage = IF ~m.ret.brk THEN @
                                         ELSE IF @ = "argv" THEN "envp" ELSE "pairs"]
    /\ UNCHANGED << phase, result, stdout >>

\* a pass of the loop of auxv::read
ReadPair ==
    /\ reader.stage = "pairs"
    /\ \E m \in {read_pair(Start(0), reader.addr, reader.auxv)} :
          /\ Frame(m, "read", reader.addr)
          /\ reader' = IF Failed(m) THEN [reader EXCEPT !.stage = "failed"]
                       ELSE [stage |-> IF m.ret.brk THEN "done" ELSE "pairs",
                             addr |-> m.ret.addr, auxv |-> m.ret.auxv]
    /\ UNCHANGED << phase, result, stdout >>

NextWalk == SkipWord \/ ReadPair

\* the reader runs on: a pass that can be taken is taken
SpecWalk == InitWalk /\ [][NextWalk]_vars /\ WF_vars(NextWalk)

(***************************************************************************)
(* Calls of the tracing and wait wrappers, whatever the libc function      *)
(* returns and whatever it does to the error number.                       *)
(***************************************************************************)
\* what a libc function returns: -1, or a value that is not -1
LibcRets == {-1, 0, 1, 2}

\* what a libc function does to the error number: 0 for leaving it alone,
\* or the number it sets (ESRCH, EINTR, EIO)
LibcSets == {0, 3, 4, 5}

\* a call of one of the wrappers
Wrap ==
    /\ \E w \in Wrappers, ret \in LibcRets, sets \in LibcSets :
          \E r \in {Wrapped(w, errno, [ret |-> ret, sets |-> sets])} :
             /\ errno' = r.errno
             /\ result' = r.res
             /\ last' = [last EXCEPT !.op = w,
                            !.arg = [ret |-> ret, sets |-> sets, before |-> errno]]
    /\ UNCHANGED << mem, tregs, tproc, pending, phase, wait_status, registers,
                    stack, breakpoints, auxv, symbols, armed, nfail, stdout,
                    debug_info, reader >>

\* what libc's fork does: on failure it returns -1 and sets the error
\* number (EAGAIN, ENOMEM); otherwise it returns 0 in the child and the
\* child's pid in the parent, and leaves the error number alone
LibcForks ==
    { [ret |-> -1, sets |-> 11], [ret |-> -1, sets |-> 12],
      [ret |-> 0, sets |-> 0], [ret |-> 7, sets |-> 0] }

\* a call of fork()
Fork ==
    /\ \E call \in LibcForks :
          /\ errno' = IF call.sets = 0 THEN errno ELSE call.sets
          /\ result' = fork(call)
          /\ last' = [last EXCEPT !.op = "fork",
                         !.arg = [ret |-> call.ret, sets |-> call.sets,
                                  before |-> errno]]
    /\ UNCHANGED << mem, tregs, tproc, pending, phase, wait_status, registers,
                    stack, breakpoints, auxv, symbols, armed, nfail, stdout,
                    debug_info, reader >>

NextErr == Wrap \/ Fork

SpecErr == Init /\ [][NextErr]_vars

(***************************************************************************)
(* Register snapshots: lookup by name, and the conversions to and from     *)
(* the register block of the operating system.                             *)
(***************************************************************************)
\* the fields of Registers in the order of the struct
FieldOrder ==
    << "r15", "r14", "r13", "r12", "rbp", "rbx", "r11", "r10", "r9", "r8",
       "rax", "rcx", "rdx", "rsi", "rdi", "orig_rax", "rip", "cs", "eflags",
       "rsp", "ss", "fs_base", "gs_base", "ds", "es", "fs", "gs" >>

\* a snapshot, or a register block, whose fields all differ: the i-th
\* field holds k + i
Numbered(k) ==
    [n \in RegNames |-> k + (CHOOSE i \in DOMAIN FieldOrder : FieldOrder[i] = n)]

\* the snapshots and register blocks the operations are applied to
RegSnapshots == {DefaultRegisters, EntryRegs, Numbered(0), Numbered(4096)}

\* the names asked for: the fields, and strings that name no field
LookupNames == RegNames \cup {"", "nope", "RIP", "eax", "pc", "r16", "fsbase"}

\* Registers::get with the segment base returned for "fs"
get_baseForSegment(r, name) ==
    IF name = "fs" THEN Some(r.fs_base)
    ELSE IF name \in RegNames THEN Some(r[name])
    ELSE None

\* Registers::get
get(r, name) ==
    CASE name = "r15" -> Some(r.r15)
      [] name = "r14" -> Some(r.r14)
      [] name = "r13" -> Some(r.r13)
      [] name = "r12" -> Some(r.r12)
      [] name = "rbp" -> Some(r.rbp)
      [] name = "rbx" -> Some(r.rbx)
      [] name = "r11" -> Some(r.r11)
      [] name = "r10" -> Some(r.r10)
      [] name = "r9" -> Some(r.r9)
      [] name = "r8" -> Some(r.r8)
      [] name = "rax" -> Some(r.rax)
      [] name = "rcx" -> Some(r.rcx)
      [] name = "rdx" -> Some(r.rdx)
      [] name = "rsi" -> Some(r.rsi)
      [] name = "rdi" -> Some(r.rdi)
      [] name = "orig_rax" -> Some(r.orig_rax)
      [] name = "rip" -> Some(r.rip)
      [] name = "cs" -> Some(r.cs)
      [] name = "eflags" -> Some(r.eflags)
      [] name = "rsp" -> Some(r.rsp)
      [] name = "ss" -> Some(r.ss)
      [] name = "fs_base" -> Some(r.fs_base)
      [] name = "gs_base" -> Some(r.gs_base)
      [] name = "ds" -> Some(r.ds)
      [] name = "es" -> Some(r.es)
      [] name = "fs" -> Some(r.fs)
      [] name = "gs" -> Some(r.gs)
      [] OTHER -> None

\* a call of registers().get(name), as the shell's register command makes
Get ==
    /\ \E r \in RegSnapshots, name \in LookupNames :
          /\ result' = get(r, name)
          /\ last' = [last EXCEPT !.op = "get", !.arg = [regs |-> r, name |-> name]]
    /\ UNCHANGED << mem, tregs, tproc, pending, phase, wait_status, registers,
                    stack, breakpoints, auxv, symbols, errno, armed, nfail,
                    stdout, debug_info, reader >>

\* the conversions: a snapshot into the OS layout, as set_regs is given
\* it, and back; a register block into a snapshot, as get_regs returns
\* it, and back
Convert ==
    /\ \E r \in RegSnapshots, u \in RegSnapshots :
          /\ result' = [block |-> ToUserRegs(r),
                        snapshot |-> FromUserRegs(ToUserRegs(r)),
                        into |-> FromUserRegs(u),
                        blockBack |-> ToUserRegs(FromUserRegs(u))]
          /\ last' = [last EXCEPT !.op = "convert", !.arg = [regs |-> r, block |-> u]]
    /\ UNCHANGED << mem, tregs, tproc, pending, phase, wait_status, registers,
                    stack, breakpoints, auxv, symbols, errno, armed, nfail,
                    stdout, debug_info, reader >>

NextRegs == Get \/ Convert

SpecRegs == Init /\ [][NextRegs]_vars

(***************************************************************************)
(* The shell: Cli::start reads a line, splits it at white space and gives  *)
(* the words to execute_command.  The first word of a line is written as a *)
(* string, and an argument, like the name of a symbol, as the sequence of  *)
(* its characters.                                                         *)
(***************************************************************************)
\* elf::types::STT_FUNC
STT_FUNC == 2

\* the value of a hexadecimal digit, as char::to_digit(16) gives it
HexDigit ==
    ("0" :> 0) @@ ("1" :> 1) @@ ("2" :> 2) @@ ("3" :> 3) @@ ("4" :> 4) @@
    ("5" :> 5) @@ ("6" :> 6) @@ ("7" :> 7) @@ ("8" :> 8) @@ ("9" :> 9) @@
    ("a" :> 10) @@ ("b" :> 11) @@ ("c" :> 12) @@ ("d" :> 13) @@ ("e" :> 14) @@
    ("f" :> 15) @@ ("A" :> 10) @@ ("B" :> 11) @@ ("C" :> 12) @@ ("D" :> 13) @@
    ("E" :> 14) @@ ("F" :> 15)

RECURSIVE HexValue(_)
HexValue(digits) ==
    IF digits = << >> THEN 0
    ELSE 16 * HexValue(SubSeq(digits, 1, Len(digits) - 1))
            + HexDigit[digits[Len(digits)]]

\* usize::from_str_radix(src, 16): an optional + sign, then one or more
\* hexadecimal digits; the words given here are too short to overflow
from_str_radix(src) ==
    LET digits == IF src # << >> /\ src[1] = "+" THEN Tail(src) ELSE src
    IN  IF digits = << >> \/ \E i \in DOMAIN digits : digits[i] \notin DOMAIN HexDigit
        THEN Err(0)
        ELSE Ok(HexValue(digits))

\* str::strip_prefix("0x")
strip_prefix(word) ==
    IF Len(word) >= 2 /\ word[1] = "0" /\ word[2] = "x"
    THEN Some(SubSeq(word, 3, Len(word)))
    ELSE None

\* Subordinate::symbol: the first symbol of that name
symbol(syms, name) ==
    LET named == { i \in DOMAIN syms : syms[i].name = name }
    IN  IF named = {} THEN None
        ELSE Some(syms[CHOOSE i \in named : \A j \in named : i <= j])

\* println!: a line of output, with the name and the number it shows; the
\* format strings are written without their quotation marks and backquotes
Println(m, text, name, val) ==
    [m EXCEPT !.out = Append(@, [text |-> text, name |-> name, val |-> val])]

\* a call of a method of Subordinate is about to be made
Called(m, op, arg) == [m EXCEPT !.calls = Append(@, [op |-> op, arg |-> arg])]

\* set_breakpoint: the address after a 0x prefix, or else the symbol named
set_breakpoint(m, addr) ==
    LET hex == strip_prefix(addr)
        parsed == IF hex.some THEN from_str_radix(hex.val) ELSE Err(0)
        sym == symbol(m.symbols, addr)
    IN  IF parsed.ok THEN breakpoint(Called(m, "breakpoint", parsed.val), parsed.val)
        ELSE IF sym.some
             THEN breakpoint(Called(m, "breakpoint", sym.val.value), sym.val.value)
        ELSE [m EXCEPT !.err = "String"]

\* print_registers
print_registers(m) ==
    LET regs == m.registers
        l1 == Println(m, "rip: 0x{:x}", << >>, regs.rip)
        l2 == Println(l1, "rsp: 0x{:x}", << >>, regs.rsp)
        l3 == Println(l2, "rbp: 0x{:x}", << >>, regs.rbp)
        l4 == Println(l3, "rax: 0x{:x}", << >>, regs.rax)
        l5 == Println(l4, "rbx: 0x{:x}", << >>, regs.rbx)
        l6 == Println(l5, "rcx: 0x{:x}", << >>, regs.rcx)
        l7 == Println(l6, "rdx: 0x{:x}", << >>, regs.rdx)
        l8 == Println(l7, "rdi: 0x{:x}", << >>, regs.rdi)
    IN  Println(l8, "rsi: 0x{:x}", << >>, regs.rsi)

\* print_register
print_register(m, name) ==
    LET value == get(m.registers, name)
    IN  IF value.some THEN Println(m, "{} 0x{:x}", name, value.val)
        ELSE Println(m, "couldn't find register with name {}", name, 0)

\* print_symbols: a line for each symbol that is a function
RECURSIVE print_symbols(_, _)
print_symbols(m, syms) ==
    IF syms = << >> THEN m
    ELSE IF Head(syms).symtype # STT_FUNC THEN print_symbols(m, Tail(syms))
    ELSE print_symbols(Println(m, "0x{:x} {}", Head(syms).name, Head(syms).value),
                       Tail(syms))

\* print_symbol
print_symbol(m, name) ==
    LET sym == symbol(m.symbols, name)
    IN  IF sym.some THEN Println(m, "0x{:x} {}", sym.val.name, sym.val.value)
        ELSE Println(m, "couldn't find symbol with name {}", name, 0)

\* the arm of execute_command for d and disas: 64 bytes read at rip are
\* given to the disassembler, whose text is printed; val is the number of
\* bytes it was given
disassemble_at_rip(m) ==
    LET rip == m.registers.rip
        m1 == read_bytes(Called(m, "read_bytes", rip), rip, 64)
    IN  IF Failed(m1) THEN m1 ELSE Println(m1, "{}", << >>, Len(m1.ret))

\* the arm of execute_command for d and disas with the name of a symbol
disassemble_symbol(m, name) ==
    LET sym == symbol(m.symbols, name)
        m1 == read_bytes(Called(m, "instructions", sym.val.value),
                         sym.val.value, sym.val.size)
    IN  IF ~sym.some THEN Println(m, "unknwon symbol {}", name, 0)
        ELSE IF Failed(m1) THEN m1
        ELSE Println(m1, "{}", << >>, Len(m1.ret))

\* execute_command.  No source file is ever loaded by DebugInfo::new, so
\* that the list command finds no lines.
execute_command(m, cmd, env, ovf) ==
    LET n == Len(cmd)
        c == IF n = 0 THEN "" ELSE cmd[1]
    IN  CASE n = 1 /\ c \in {"regs", "registers"} -> print_registers(m)
          [] n = 2 /\ c \in {"r", "reg", "register"} -> print_register(m, cmd[2])
          [] n = 1 /\ c \in {"si", "stepi"} -> step(Called(m, "step", 0), env, ovf)
          [] n = 1 /\ c \in {"c", "cont"} -> cont(Called(m, "cont", 0), env, ovf)
          [] n = 1 /\ c \in {"d", "disas"} -> disassemble_at_rip(m)
          [] n = 2 /\ c \in {"d", "disas"} -> disassemble_symbol(m, cmd[2])
          [] n = 2 /\ c \in {"l", "list"} ->
                Println(m, "couldn't find source code for symbol {}", cmd[2], 0)
          [] n = 1 /\ c \in {"syms", "symbols"} -> print_symbols(m, m.symbols)
          [] n = 2 /\ c \in {"sym", "symbol"} -> print_symbol(m, cmd[2])
          [] n = 2 /\ c \in {"b", "break"} -> set_breakpoint(m, cmd[2])
          [] OTHER -> Println(m, "unknown command {:?}", << >>, n)

\* one round of the loop without the look at the exit status
serve_silent(m, cmd, env, ovf) == execute_command(m, cmd, env, ovf)

\* one round of the loop of Cli::start after readline returned a line: the
\* command is executed, an error of it is returned with ?, and otherwise
\* the exit status is looked at
serve(m, cmd, env, ovf) ==
    LET m1 == execute_command(m, cmd, env, ovf)
        st == exit_status(m1.wait_status)
    IN  IF Failed(m1) THEN m1
        ELSE IF st.some
        THEN Println(m1, "debugged process exited with status: {}", << >>, st.val)
        ELSE m1

\* the words that make a command by themselves; q is no command
CommandWords ==
    {"regs", "registers", "s", "step", "si", "stepi", "c", "cont", "d", "disas",
     "syms", "symbols", "q"}

\* the names of registers given: rip, and nope
RegisterArgs == { << "r", "i", "p" >>, << "n", "o", "p", "e" >> }

\* the names of symbols given: f, and nope
SymbolArgs == { << "f" >>, << "n", "o", "p", "e" >> }

\* the arguments of break: 0x32 and 32 (the first instruction), 0x34 and 34
\* (the nop after it), f (a symbol, and a hexadecimal digit), 0xf and 0x31
\* (unmapped addresses), nope and 0x
BreakArgs ==
    { << "0", "x", "3", "2" >>, << "3", "2" >>, << "0", "x", "3", "4" >>,
      << "3", "4" >>, << "f" >>, << "0", "x", "f" >>, << "0", "x", "3", "1" >>,
      << "n", "o", "p", "e" >>, << "0", "x" >> }

\* the lines read, split at white space
Lines ==
    {<< >>} \cup { << c >> : c \in CommandWords }
      \cup { << c, a >> : c \in {"r", "reg", "register"}, a \in RegisterArgs }
      \cup { << c, a >> : c \in {"d", "disas", "l", "list", "sym", "symbol"},
                          a \in SymbolArgs }
      \cup { << c, a >> : c \in {"b", "break"}, a \in BreakArgs }

\* what the environment does to a resumed tracee, for the commands that
\* resume it
EnvFor(cmd) ==
    IF Len(cmd) = 1 /\ cmd[1] \in {"si", "stepi", "c", "cont"} THEN Env ELSE {"run"}

\* the OS requests of a command that are made to fail
FailFor(cmd) ==
    IF cmd = << >> THEN {0}
    ELSE IF Len(cmd) = 1 /\ cmd[1] \in {"si", "stepi", "c", "cont"} THEN MayFail
    ELSE IF cmd[1] \in {"d", "disas", "b", "break"} THEN MayFail \cap (0..2)
    ELSE {0}

\* the state a command starts from: nothing printed, no call made
StartCommand(f) == Start(f) @@ [out |-> << >>, calls |-> << >>]

\* readline returned a line
ReadLine ==
    /\ phase = "ready"
    /\ \E cmd \in Lines :
          \E env \in EnvFor(cmd), f \in FailFor(cmd) :
          \E s \in {StartCommand(f)} :
          \E mT \in {serve(s, cmd, env, TRUE)} :
          \E m \in Outcomes(mT, serve(s, cmd, env, FALSE)) :
             /\ Frame(m, "command", [cmd |-> cmd, calls |-> m.calls])
             /\ result' = NoResult
             /\ stdout' = m.out
             /\ reader' = reader
             /\ phase' = IF Failed(m) THEN "error"
                         ELSE IF exit_status(m.wait_status).some THEN "exited"
                         ELSE "ready"

\* readline returned Interrupted or Eof: the loop is left
ReadEof ==
    /\ phase = "ready"
    /\ phase' = "eof"
    /\ stdout' = << >>
    /\ last' = [last EXCEPT !.op = "eof", !.arg = 0, !.res = "none", !.log = << >>]
    /\ UNCHANGED << mem, tregs, tproc, pending, wait_status, registers, stack,
                    breakpoints, auxv, symbols, errno, armed, nfail, result,
                    debug_info, reader >>

NextCli == Spawn \/ ReadLine \/ ReadEof

SpecCli == Init /\ [][NextCli]_vars

(***************************************************************************)
(* Spawns of executable files with any line program and any load bias,     *)
(* and the lookups of lines by program counter that follow.                *)
(***************************************************************************)
\* the largest number of rows of a line program
MaxRows == 2

\* the rows: at the addresses the files are entered at, of two lines,
\* ending a sequence or not
Rows == [address : ElfEntries, line : 1..2, end_sequence : BOOLEAN]

\* the files: a function symbol at the entry address, and up to MaxRows rows
LinedElfs ==
    { [entry |-> e,
       symtab |-> << [name |-> << "f" >>, value |-> e, size |-> 3,
                      bind |-> 1, symtype |-> STT_FUNC] >>,
       rows |-> rows] :
         e \in ElfEntries, rows \in UNION { [1..n -> Rows] : n \in 0..MaxRows } }

\* the program counters asked for: the file addresses of the rows, and
\* the addresses they are loaded at under each load bias
LinePcs == { f + (MemLo - e) : f \in ElfEntries, e \in ElfEntries }

\* a spawn, in which no OS request fails, of any of the files
SpawnLined ==
    /\ phase = "new"
    /\ \E elf \in LinedElfs :
          \E m \in {spawn(Start(0), 1, elf, TRUE, TRUE, TRUE, TRUE)} :
             /\ Commit(m, "spawn", 1)
             /\ phase' = IF Failed(m) THEN "failed" ELSE "ready"

\* a call of debug_info().line_info(rip)
LineInfo ==
    /\ phase = "ready"
    /\ \E rip \in LinePcs :
          /\ result' = line_info(debug_info, rip)
          /\ last' = [last EXCEPT !.op = "line_info", !.arg = rip, !.log = << >>]
    /\ UNCHANGED << mem, tregs, tproc, pending, phase, wait_status, registers,
                    stack, breakpoints, auxv, symbols, errno, armed, nfail,
                    stdout, debug_info, reader >>

\* the list command's lookup, line_info(symbol(name).value)
LineOfSymbol ==
    /\ phase = "ready"
    /\ \E name \in { << "f" >>, << "g" >> } :
          \E sy \in {symbol(symbols, name)} :
             /\ result' = IF sy.some THEN line_info(debug_info, sy.val.value)
                           ELSE None
             /\ last' = [last EXCEPT !.op = "list", !.arg = name, !.log = << >>]
    /\ UNCHANGED << mem, tregs, tproc, pending, phase, wait_status, registers,
                    stack, breakpoints, auxv, symbols, errno, armed, nfail,
                    stdout, debug_info, reader >>

NextLine == SpawnLined \/ LineInfo \/ LineOfSymbol

SpecLine == Init /\ [][NextLine]_vars

(***************************************************************************)
(* The debug information of an executable: DebugInfo::new over the         *)
(* subprogram entries of its DWARF sections, and symbol_for_pc.            *)
(***************************************************************************)
\* the largest number of subprogram entries of a file
MaxDies == 2

\* a subprogram entry: its DW_AT_name, its DW_AT_low_pc and DW_AT_high_pc,
\* each with the form of its value ("addr" for an address, "udata" for an
\* unsigned offset), and its DW_AT_external flag; "absent" stands for an
\* attribute the entry does not have
DieNames == {"f", "g"}

DieLows == {MemLo, MemLo + 2}

DieHighs == {0, 4}

\* the entries of functions with a name, an address and a length
Dies == [name : DieNames, low_form : {"addr"}, low_pc : DieLows,
         high_form : {"udata"}, high_pc : DieHighs,
         external : {"absent", "true"}]

\* the entries of a file, in document order
Documents == UNION { [1..n -> Dies] : n \in 0..MaxDies }

\* the entries the walk of DebugInfo::new does not leave with continue: a
\* name, a low_pc that is an address, a high_pc that is an unsigned
\* offset, and a DW_AT_external flag
Kept(die) ==
    /\ die.name # "absent"
    /\ die.low_form = "addr"
    /\ die.high_form = "udata"
    /\ die.external # "absent"

\* the Symbol made of an entry
SymbolOf(die) ==
    [name |-> die.name, low_pc |-> die.low_pc, high_pc |-> die.high_pc,
     external |-> (die.external = "true")]

\* the HashMap DebugInfo::new builds: an insert under a name already
\* present replaces the symbol.  Each name maps to the position of its
\* symbol in the document.
Recorded(doc) ==
    { i \in DOMAIN doc :
         /\ Kept(doc[i])
         /\ \A j \in DOMAIN doc :
               (j > i /\ Kept(doc[j])) => doc[j].name # doc[i].name }

\* the orders in which a HashMap with the keys S can be iterated: the
\* order follows the hasher's keys, which are drawn at random when the
\* map is made
IterOrders(S) ==
    { o \in [1..Cardinality(S) -> S] : \A x \in S : \E i \in DOMAIN o : o[i] = x }

\* the test of symbol_for_pc
Covers(sy, pc) == pc >= sy.low_pc /\ pc < sy.low_pc + sy.high_pc

\* DebugInfo::symbol_for_pc, over the symbols in the map's iteration order
RECURSIVE symbol_for_pc(_, _)
symbol_for_pc(syms, pc) ==
    IF syms = << >> THEN None
    ELSE IF Covers(Head(syms), pc) THEN Some(Head(syms))
    ELSE symbol_for_pc(Tail(syms), pc)

\* the values of pc asked for: below, at the start of, at the end of and
\* beyond the intervals
PcValues == {MemLo - 1, MemLo, MemLo + 3, MemLo + 4, MemLo + 6}

\* DebugInfo::new on a file with the entries doc
DebugInfoNew ==
    /\ last.op = "none"
    /\ \E doc \in Documents :
          \E o \in IterOrders(Recorded(doc)) :
             last' = [last EXCEPT !.op = "DebugInfo::new",
                         !.arg = [doc |-> doc, order |-> o, pc |-> 0]]
    /\ result' = NoResult
    /\ UNCHANGED << mem, tregs, tproc, pending, phase, wait_status, registers,
                    stack, breakpoints, auxv, symbols, errno, armed, nfail,
                    stdout, debug_info, reader >>

\* a call of symbol_for_pc
SymbolForPc ==
    /\ last.op \in {"DebugInfo::new", "symbol_for_pc"}
    /\ \E pc \in PcValues :
          /\ result' = symbol_for_pc([i \in DOMAIN last.arg.order |->
                                         SymbolOf(last.arg.doc[last.arg.order[i]])],
                                     pc)
          /\ last' = [last EXCEPT !.op = "symbol_for_pc",
                         !.arg = [last.arg EXCEPT !.pc = pc]]
    /\ UNCHANGED << mem, tregs, tproc, pending, phase, wait_status, registers,
                    stack, breakpoints, auxv, symbols, errno, armed, nfail,
                    stdout, debug_info, reader >>

NextPc == DebugInfoNew \/ SymbolForPc

SpecPc == Init /\ [][NextPc]_vars

(***************************************************************************)
(* DebugInfo::new over subprogram entries with any of their attributes     *)
(* missing or in another form, and the lookup of a symbol by name.         *)
(***************************************************************************)
\* the entries: with or without a name, a low_pc, a high_pc (an offset
\* from low_pc, or the address of the end) and a DW_AT_external flag
\* (set or not)
AnyDies ==
    [name : {"f", "absent"}, low_form : {"addr"}, low_pc : {MemLo},
     high_form : {"udata"}, high_pc : {4}, external : {"absent", "true", "false"}]
    \cup [name : {"f", "absent"}, low_form : {"addr"}, low_pc : {MemLo},
          high_form : {"addr"}, high_pc : {MemLo + 4},
          external : {"absent", "true", "false"}]
    \cup [name : {"f", "absent"}, low_form : {"addr"}, low_pc : {MemLo},
          high_form : {"absent"}, high_pc : {0},
          external : {"absent", "true", "false"}]
    \cup [name : {"f", "absent"}, low_form : {"absent"}, low_pc : {0},
          high_form : {"udata", "absent"}, high_pc : {4},
          external : {"absent", "true", "false"}]

AnyDocuments == UNION { [1..n -> AnyDies] : n \in 0..MaxDies }

\* DebugInfo::symbol, over the symbols in the map's iteration order
RECURSIVE DebugInfo_symbol(_, _)
DebugInfo_symbol(syms, name) ==
    IF syms = << >> THEN None
    ELSE IF Head(syms).name = name THEN Some(Head(syms))
    ELSE DebugInfo_symbol(Tail(syms), name)

\* DebugInfo::new on a file with the entries doc
DebugInfoNewAny ==
    /\ last.op = "none"
    /\ \E doc \in AnyDocuments :
          \E o \in IterOrders(Recorded(doc)) :
             last' = [last EXCEPT !.op = "DebugInfo::new",
                         !.arg = [doc |-> doc, order |-> o, name |-> ""]]
    /\ result' = NoResult
    /\ UNCHANGED << mem, tregs, tproc, pending, phase, wait_status, registers,
                    stack, breakpoints, auxv, symbols, errno, armed, nfail,
                    stdout, debug_info, reader >>

\* a call of DebugInfo::symbol
DebugInfoSymbol ==
    /\ last.op \in {"DebugInfo::new", "DebugInfo::symbol"}
    /\ \E name \in DieNames :
          /\ result' = DebugInfo_symbol([i \in DOMAIN last.arg.order |->
                                            SymbolOf(last.arg.doc[last.arg.order[i]])],
                                        name)
          /\ last' = [last EXCEPT !.op = "DebugInfo::symbol",
                         !.arg = [last.arg EXCEPT !.name = name]]
    /\ UNCHANGED << mem, tregs, tproc, pending, phase, wait_status, registers,
                    stack, breakpoints, auxv, symbols, errno, armed, nfail,
                    stdout, debug_info, reader >>

NextDie == DebugInfoNewAny \/ DebugInfoSymbol

SpecDie == Init /\ [][NextDie]_vars

(***************************************************************************)
(* Properties.                                                             *)
(***************************************************************************)
\* a call of step or cont
Resume == {"step", "cont"}

\* the tracee was resumed by the last call and its stop was waited for
Waited(l) == Len(l.log) >= 2 /\ l.log[1].ok /\ l.log[2].op = "wait" /\ l.log[2].ok

\* the number of requests op among the requests of log
Count(log, op) == Cardinality({i \in DOMAIN log : log[i].op = op})

\* C1: after any sequence of calls, for every address A in the breakpoint
\* table the low byte of the tracee's memory at A is 0xCC and the saved
\* word for A is the word that was at A just before A was armed.
C1_ArmedEntries ==
    \A a \in DOMAIN breakpoints :
        ByteAt(mem, a) = INT3 /\ breakpoints[a] = armed[a]

\* C2: when the tracee stops with rip - 1 = A and A in the table, then
\* after a successful fetch_state the tracee's word at A is the saved word,
\* A is no longer in the table, and the snapshot's rip and the tracee's rip
\* are both A.
C2_HitRestored ==
    [][\A a \in DOMAIN breakpoints :
          (last'.op \in Resume /\ last'.res = "none" /\ Waited(last')
             /\ wait_status'.kind = "Stopped" /\ last'.stopRip - 1 = a)
          => /\ WordAt(mem', a) = breakpoints[a]
             /\ a \notin DOMAIN breakpoints'
             /\ registers'.rip = a
             /\ tregs'.rip = a]_vars

\* a step or cont has returned from a stop at an armed breakpoint
C2_Witness ==
    /\ last.op \in Resume /\ last.res = "none" /\ Waited(last)
    /\ last.stopEv = "trap"
    /\ Count(last.log, "poke") = 1 /\ Count(last.log, "setregs") = 1
    /\ tregs.rip = last.stopRip - 1

\* C3: breakpoint(A) while A is in the table succeeds, issues no peek and
\* no poke, and leaves the tracee's memory, the saved word for A and the
\* rest of the table as they were.
C3_SecondCallNoOp ==
    [][(last'.op = "breakpoint" /\ last'.arg \in DOMAIN breakpoints)
          => /\ last'.res = "none"
             /\ last'.log = << >>
             /\ mem' = mem
             /\ breakpoints' = breakpoints
             /\ tregs' = tregs /\ registers' = registers /\ stack' = stack
             /\ wait_status' = wait_status]_vars

\* breakpoint(A) has returned from a call with A already armed
C3_Witness ==
    /\ last.op = "breakpoint" /\ last.res = "none" /\ last.log = << >>
    /\ last.arg \in DOMAIN breakpoints
    /\ ByteAt(mem, last.arg) = INT3

\* C4: breakpoint(A) with A not in the table writes exactly one word, the
\* word at A, with the word W read at A but for its low byte, which is
\* 0xCC; W is saved for A; the snapshots, the wait status and the other
\* entries are unchanged.
C4_InstallFrame ==
    [][(last'.op = "breakpoint" /\ last'.arg \notin DOMAIN breakpoints
          /\ last'.res = "none")
          => LET a == last'.arg
                 w == WordAt(mem, a)
             IN  /\ Count(last'.log, "poke") = 1
                 /\ \E i \in DOMAIN last'.log :
                       last'.log[i].op = "poke" /\ last'.log[i].arg = a
                 /\ ByteAt(mem', a) = INT3
                 /\ \A x \in Mapped \ {a} : ByteAt(mem', x) = ByteAt(mem, x)
                 /\ \A i \in 2..WordLen : WordAt(mem', a)[i] = w[i]
                 /\ DOMAIN breakpoints' = (DOMAIN breakpoints) \cup {a}
                 /\ breakpoints'[a] = w
                 /\ \A b \in DOMAIN breakpoints : breakpoints'[b] = breakpoints[b]
                 /\ registers' = registers /\ stack' = stack
                 /\ wait_status' = wait_status /\ tregs' = tregs]_vars

\* breakpoint(A) has armed an address whose word W has nonzero upper bytes
C4_Witness ==
    /\ last.op = "breakpoint" /\ last.res = "none" /\ Len(last.log) = 2
    /\ last.arg \in DOMAIN breakpoints
    /\ \E i \in 2..WordLen : breakpoints[last.arg][i] # 0

\* C5: if the peek or the poke of breakpoint(A) fails, breakpoint(A)
\* returns an Errno error, A is not added to the table and the tracee's
\* memory is unchanged.
C5_InstallFailure ==
    [][(last'.op = "breakpoint" /\ last'.res # "none")
          => /\ last'.res = "Errno"
             /\ last'.arg \notin DOMAIN breakpoints'
             /\ breakpoints' = breakpoints
             /\ mem' = mem]_vars

\* breakpoint(A) has failed at its poke, after a peek that succeeded
C5_Witness ==
    /\ last.op = "breakpoint" /\ last.res = "Errno"
    /\ Len(last.log) = 2 /\ last.log[1].ok
    /\ last.log[2].op = "poke" /\ ~last.log[2].ok

\* the last request of the log is a failed request op
FailedAt(l, op) ==
    Len(l.log) > 0 /\ l.log[Len(l.log)].op = op /\ ~l.log[Len(l.log)].ok

\* C6: if the poke or the set_regs issued while handling a hit at A fails,
\* the failure is returned as Errno, A is in the table exactly when the
\* byte at A is still 0xCC, and the snapshot's rip is the tracee's rip.
C6_RestoreFailureConsistent ==
    (last.op \in Resume /\ Waited(last)
        /\ (FailedAt(last, "poke") \/ FailedAt(last, "setregs")))
    => /\ last.res = "Errno"
       /\ ((last.stopRip - 1) \in DOMAIN breakpoints
              <=> ByteAt(mem, last.stopRip - 1) = INT3)
       /\ registers.rip = tregs.rip

\* C7: an entry is removed from the table, and rip rewound, only when the
\* tracee stopped because it executed the 0xCC installed at the entry's
\* address; a stop for any other reason removes no entry and leaves the
\* tracee's rip as it was at the stop.
C7_OnlyTrapRemoves ==
    [][(last'.op \in Resume /\ Waited(last') /\ last'.stopEv # "trap")
          => /\ DOMAIN breakpoints' = DOMAIN breakpoints
             /\ tregs'.rip = last'.stopRip]_vars

\* C8: a step issues exactly one single_step and, if it succeeded, exactly
\* one wait right after it; a cont exactly one cont and then one wait; no
\* wait is issued when the resume request fails, and no request follows a
\* failed request.
C8_ResumeThenWait ==
    /\ \A i \in DOMAIN last.log : i < Len(last.log) => last.log[i].ok
    /\ last.op \in Resume =>
          LET req == IF last.op = "step" THEN "singlestep" ELSE "cont"
              other == IF last.op = "step" THEN "cont" ELSE "singlestep"
          IN  /\ Len(last.log) >= 1
              /\ last.log[1].op = req
              /\ Count(last.log, req) = 1
              /\ Count(last.log, other) = 0
              /\ last.log[1].ok =>
                    Len(last.log) >= 2 /\ last.log[2].op = "wait"
                       /\ Count(last.log, "wait") = 1
              /\ ~last.log[1].ok => Len(last.log) = 1

\* a step or cont has returned after its resume request failed
C8_Witness ==
    /\ last.op \in Resume /\ last.res = "Errno"
    /\ Len(last.log) = 1 /\ ~last.log[1].ok

\* C9: when spawn, step or cont returns successfully with the wait status
\* Stopped, the register snapshot is the tracee's registers, the stack
\* snapshot holds 16 words, word i being the tracee's word at rsp + 8 * i,
\* and the tracee has not run since the wait returned.
C9_SnapshotFresh ==
    (last.op \in Resume \cup {"spawn"} /\ last.res = "none"
        /\ wait_status.kind = "Stopped")
    => /\ registers = tregs
       /\ Len(stack) = StackWords
       /\ \A i \in 0..(StackWords - 1) :
             stack[i + 1] = WordAt(mem, tregs.rsp + WordLen * i)
       /\ tproc = "traced"
       /\ pending = NoStatus

\* a step or cont has returned successfully after rolling rip back
C9_Witness ==
    /\ last.op \in Resume /\ last.res = "none" /\ wait_status.kind = "Stopped"
    /\ Count(last.log, "setregs") = 1
    /\ registers.rip = last.stopRip - 1

\* C10: no peek, poke, get_regs or set_regs is issued to the tracee unless
\* the most recent wait status is Stopped.
C10_AccessOnlyWhenStopped ==
    \A i \in DOMAIN last.log :
        last.log[i].op \in {"peek", "poke", "getregs", "setregs"}
           => last.log[i].ws = "Stopped"

\* the stored wait status says the tracee has terminated
Terminated == wait_status.kind \in {"Exited", "Signaled"}

\* the Subordinate fields and the tracee are left as they were
TerminalFrame ==
    /\ wait_status' = wait_status
    /\ registers' = registers
    /\ stack' = stack
    /\ breakpoints' = breakpoints
    /\ tproc' = tproc /\ pending' = pending /\ mem' = mem /\ tregs' = tregs

\* C11 (as stated): once a wait has returned Exited or Signaled, every
\* later step, cont or breakpoint fails without issuing a wait, and the
\* wait status, the register snapshot and the table never change again.
C11_TerminalAbsorbing ==
    [][Terminated
          => /\ last'.res # "none"
             /\ Count(last'.log, "wait") = 0
             /\ TerminalFrame]_vars

\* C11 (amended): once a wait has returned Exited or Signaled, every later
\* step or cont fails without issuing a wait, every later breakpoint(A)
\* issues no wait and fails unless A is already in the table, in which
\* case it succeeds without a request; the wait status, the register
\* snapshot, the stack snapshot and the table never change again.
C11_TerminalAbsorbingAmended ==
    [][Terminated
          => /\ last'.op \in Resume => last'.res = "Errno" /\ Len(last'.log) = 1
             /\ (last'.op = "breakpoint" /\ last'.arg \notin DOMAIN breakpoints)
                   => last'.res = "Errno"
             /\ (last'.op = "breakpoint" /\ last'.arg \in DOMAIN breakpoints)
                   => last'.res = "none" /\ last'.log = << >>
             /\ Count(last'.log, "wait") = 0
             /\ TerminalFrame]_vars

\* a step or cont has failed on a tracee that had exited with entries armed
C11_Witness ==
    /\ wait_status.kind = "Exited" /\ phase = "ready"
    /\ last.op \in Resume /\ last.res = "Errno"
    /\ DOMAIN breakpoints # {}

\* C12: if spawn returns a handle, the one wait spawn performed returned
\* Stopped, the register snapshot is the tracee's registers at that stop,
\* and the auxiliary vector was read, entry by entry, from the stopped
\* tracee's stack; if the wait returned anything else, or failed, spawn
\* returns no handle.
C12_SpawnStopped ==
    last.op = "spawn" =>
       /\ phase = "ready" =>
             /\ last.res = "none"
             /\ wait_status.kind = "Stopped"
             /\ last.log[1].op = "wait" /\ Count(last.log, "wait") = 1
             /\ tproc = "traced" /\ pending = NoStatus
             /\ registers = tregs
             /\ \A i \in DOMAIN last.log :
                   last.log[i].ok /\ (i > 1 => last.log[i].ws = "Stopped")
             /\ auxv = << EntryNew(StackImage[6], StackImage[7]),
                          EntryNew(StackImage[8], StackImage[9]) >>
       /\ wait_status.kind # "Stopped" =>
             phase = "failed" /\ last.res # "none"

\* spawn has returned an error after its wait returned Exited
C12_Witness ==
    /\ last.op = "spawn" /\ phase = "failed" /\ last.arg = 1
    /\ wait_status.kind = "Exited"
    /\ last.res = "Errno" /\ Count(last.log, "peek") = 1

\* spawn has returned a handle
C12_WitnessHandle ==
    /\ last.op = "spawn" /\ phase = "ready" /\ Len(auxv) = 2

\* C13: exit_status() is Some(code) exactly when the stored wait status is
\* Exited(_, code); it is None after spawn, with every Stopped status, and
\* when the tracee was terminated by a signal; after the tracee's exit has
\* been waited for it is Some of the code the tracee exited with.
C13_ExitStatus ==
    phase = "ready" =>
       /\ \A c \in Byte :
             exit_status(wait_status) = Some(c)
                <=> (wait_status.kind = "Exited" /\ wait_status.val = c)
       /\ wait_status.kind # "Exited" => exit_status(wait_status) = None
       /\ last.op = "spawn" => exit_status(wait_status) = None
       /\ (last.op \in Resume /\ Waited(last) /\ last.stopEv = "kill")
             => exit_status(wait_status) = None
       /\ (last.op \in Resume /\ Waited(last) /\ last.stopEv = "exit")
             => exit_status(wait_status) = Some(tregs.rdi % 256)

\* a cont has returned after the tracee was killed by a signal
C13_Witness ==
    /\ phase = "ready" /\ last.op \in Resume /\ Waited(last)
    /\ last.stopEv = "kill" /\ wait_status.kind = "Signaled"
    /\ exit_status(wait_status) = None

\* a cont has returned after the tracee exited
C13_WitnessExited ==
    /\ phase = "ready" /\ last.op = "cont" /\ Waited(last)
    /\ last.stopEv = "exit" /\ exit_status(wait_status) = Some(0)

\* the requests of log that inspect or change the tracee
Inspections(log) ==
    {i \in DOMAIN log : log[i].op \in {"peek", "poke", "getregs", "setregs"}}

\* C14: when the wait of fetch_state returns a status other than Stopped,
\* the status is stored, the register snapshot, the stack snapshot and the
\* table are left as they were, and fetch_state issues no peek, poke,
\* get_regs or set_regs.
C14_NotStoppedFrame ==
    [][/\ (last'.op \in Resume /\ Waited(last') /\ wait_status'.kind # "Stopped")
             => /\ wait_status' = (IF last'.stopEv = "kill"
                                   THEN [kind |-> "Signaled", val |-> 9]
                                   ELSE [kind |-> "Exited", val |-> tregs'.rdi % 256])
                /\ registers' = registers
                /\ stack' = stack
                /\ breakpoints' = breakpoints
                /\ Inspections(last'.log) = {}
                /\ Len(last'.log) = 2
                /\ last'.res = "none"
       /\ (last'.op = "spawn" /\ Len(last'.log) >= 1 /\ last'.log[1].ok
             /\ wait_status'.kind # "Stopped")
             => /\ wait_status' = [kind |-> "Exited", val |-> 1]
                /\ registers' = registers
                /\ stack' = stack
                /\ breakpoints' = breakpoints
                /\ \A i \in Inspections(last'.log) : last'.log[i].op = "peek"]_vars

\* a step or cont has returned Ok with the status Exited stored, leaving
\* the snapshot of the stop before it and an armed entry
C14_Witness ==
    /\ last.op \in Resume /\ Waited(last) /\ last.res = "none"
    /\ wait_status.kind = "Exited"
    /\ Len(stack) = StackWords /\ registers.rip # tregs.rip
    /\ DOMAIN breakpoints # {}

\* C15: spawn with an empty command vector returns a String error and
\* has no side effect: no fork, no exec, no file open and no wait.
C15_EmptyCommand ==
    (last.op = "spawn" /\ last.arg = 0)
    => /\ last.res = "String"
       /\ phase = "failed"
       /\ last.sys = << >>
       /\ last.log = << >>
       /\ tproc = "none" /\ pending = NoStatus
       /\ mem = NoPatch /\ tregs = EntryRegs
       /\ wait_status = [kind |-> "Unknwon", val |-> 0]
       /\ registers = DefaultRegisters /\ stack = << >>
       /\ breakpoints = EmptyTable /\ auxv = << >>

\* spawn has returned from a call with an empty command vector
C15_Witness ==
    last.op = "spawn" /\ last.arg = 0 /\ last.res = "String"

\* the bytes of the tracee's memory from address a on, n of them
BytesFrom(m, a, n) == [i \in 1..n |-> ByteAt(m, a + i - 1)]

\* C16: for every address A and every n >= 0, read_bytes(A, n) returns
\* exactly n bytes, the first n bytes of the words at A, A + 8, A + 16, ...
C16_ReadBytesExact ==
    (last.op = "read_bytes" /\ last.res = "none")
    => LET a == last.arg[1]
           n == last.arg[2]
       IN  Len(result) = n /\ result = BytesFrom(mem, a, n)

\* C17: for every peekable aligned address A and every n, read_words(A, n)
\* returns exactly n words, word i being the tracee's word at A + 8 * i,
\* and read_bytes(A, 8 * n) returns the little-endian concatenation of
\* those n words, of the same length and the same bytes.
C17_WordsAndBytes ==
    /\ (last.op = "read_words" /\ last.res = "none" /\ last.arg[1] % WordLen = 0)
          => /\ Len(result) = last.arg[2]
             /\ \A i \in 0..(last.arg[2] - 1) :
                   result[i + 1] = WordAt(mem, last.arg[1] + WordLen * i)
    /\ (last.op = "read_bytes" /\ last.res = "none" /\ last.arg[1] % WordLen = 0
          /\ last.arg[2] % WordLen = 0)
          => LET a == last.arg[1]
                 n == last.arg[2] \div WordLen
             IN  /\ Len(result) = WordLen * n
                 /\ \A i \in 0..(n - 1) : \A j \in 1..WordLen :
                       result[WordLen * i + j] = WordAt(mem, a + WordLen * i)[j]

\* the load bias: the value of the first AT_ENTRY entry of the auxiliary
\* vector minus the entry address of the file's header
LoadBias ==
    LET at == {i \in DOMAIN auxv : auxv[i].tag = "EntryAddr"}
    IN  auxv[CHOOSE i \in at : \A j \in at : i <= j].value - last.elf.entry

\* C18: after spawn, every symbol that is not weak and whose file value is
\* nonzero has the value file value + load bias, and every weak symbol has
\* its file value.
C18_SymbolsShifted ==
    (last.op = "spawn" /\ phase = "ready")
    => /\ Len(symbols) = Len(last.elf.symtab)
       /\ \A i \in DOMAIN symbols :
             LET f == last.elf.symtab[i]
             IN  /\ symbols[i].bind = f.bind
                 /\ (f.bind # STB_WEAK /\ f.value # 0)
                       => symbols[i].value = f.value + LoadBias
                 /\ f.bind = STB_WEAK => symbols[i].value = f.value

\* spawn has returned for a file loaded with a nonzero bias that has a weak
\* symbol and a symbol that is not weak, both of nonzero value
C18_Witness ==
    /\ last.op = "spawn" /\ phase = "ready" /\ LoadBias > 0
    /\ \E i, j \in DOMAIN symbols :
          /\ last.elf.symtab[i].bind = STB_WEAK /\ last.elf.symtab[i].value # 0
          /\ last.elf.symtab[j].bind # STB_WEAK /\ last.elf.symtab[j].value # 0
          /\ symbols[j].value # last.elf.symtab[j].value

\* C19: for a stopped tracee whose stack at rsp is argc, a argv pointers,
\* a null word, e envp pointers, a null word, k pairs and the AT_NULL
\* pair, for any a, e and k, the reader of the auxiliary vector starts at
\* rsp + 8 and returns exactly the k entries Entry::new makes of the
\* pairs, in stack order, without an entry for AT_NULL.
C19_AuxvRead ==
    last.op = "spawn"
    => /\ phase = "ready"
       /\ last.log[StackWords + 3].op = "peek"
       /\ last.log[StackWords + 3].arg = tregs.rsp + WordLen
       /\ Len(auxv) = Len(last.img.aux)
       /\ \A i \in DOMAIN auxv :
             auxv[i] = EntryNew(last.img.aux[i][1], last.img.aux[i][2])
       /\ \A i \in DOMAIN auxv : auxv[i].tag # "Null"

\* spawn has read two entries past no argv pointer and two envp pointers
C19_Witness ==
    /\ last.op = "spawn" /\ phase = "ready"
    /\ Len(last.img.argv) = 0 /\ Len(last.img.envp) = 2
    /\ Len(auxv) = 2 /\ auxv[1].tag = "Unknown" /\ auxv[2].tag = "Ignore"

\* C20: every tracing and wait wrapper clears the error number before the
\* call and fails with Errno(e) exactly when the error number is e # 0
\* after the call, whatever the call returned; a peek that returns -1, a
\* word of all ones, without an error number succeeds with that word.
C20_ErrnoDiscipline ==
    last.op \in Wrappers
    => /\ errno = last.arg.sets
       /\ \A e \in LibcSets \ {0} : result = Err(e) <=> errno = e
       /\ result.ok <=> errno = 0
       /\ (last.op = "peek" /\ errno = 0) => result = Ok(last.arg.ret)

\* a peek has returned the word of all ones, called with a stale error
\* number at the location
C20_Witness ==
    /\ last.op = "peek" /\ last.arg.ret = -1 /\ last.arg.sets = 0
    /\ last.arg.before # 0 /\ result = Ok(-1)


\* C21: when libc's fork fails, fork() fails with Errno(e), e being the
\* error number the operating system gave for the failure.
C21_ForkErrno ==
    (last.op = "fork" /\ last.arg.ret < 0) => result = Err(last.arg.sets)

\* the recorded symbols that cover the pc asked for, by position in the
\* document
Covering == { i \in Recorded(last.arg.doc) : Covers(last.arg.doc[i], last.arg.pc) }

\* C22: symbol_for_pc(pc) returns a symbol exactly when a recorded symbol
\* covers pc, low_pc <= pc < low_pc + high_pc, and the symbol returned is
\* the first of the covering symbols in document order.
C22_FirstInDocument ==
    last.op = "symbol_for_pc"
    => /\ result.some <=> Covering # {}
       /\ \A i \in Covering :
             (\A j \in Covering : i <= j) => result.val = SymbolOf(last.arg.doc[i])

\* symbol_for_pc(pc) returns a symbol exactly when a recorded symbol covers
\* pc, and the symbol returned is a recorded symbol that covers pc
SymbolForPcCovering ==
    last.op = "symbol_for_pc"
    => /\ result.some <=> Covering # {}
       /\ result.some => \E i \in Covering : result.val = SymbolOf(last.arg.doc[i])

\* the 27 canonical lowercase register names
CanonicalNames ==
    { "r8", "r9", "r10", "r11", "r12", "r13", "r14", "r15",
      "rax", "rbx", "rcx", "rdx", "rsi", "rdi", "rbp", "rsp", "rip",
      "orig_rax", "eflags", "cs", "ss", "ds", "es", "fs", "gs",
      "fs_base", "gs_base" }

\* C23: get(name) returns Some(the value of the field called name) for each
\* of the 27 canonical lowercase register names, and None for every other
\* string.
C23_GetByName ==
    last.op = "get"
    => /\ Cardinality(CanonicalNames) = 27
       /\ last.arg.name \in CanonicalNames
             => result = Some(last.arg.regs[last.arg.name])
       /\ last.arg.name \notin CanonicalNames => result = None

\* the segment register fs has been looked up in a snapshot whose fs and
\* fs_base differ
C23_Witness ==
    /\ last.op = "get" /\ last.arg.name = "fs"
    /\ last.arg.regs.fs # last.arg.regs.fs_base
    /\ result = Some(last.arg.regs.fs)

\* C24: a snapshot converted to the OS layout and back is the snapshot, a
\* register block converted to a snapshot and back is the block, and each
\* conversion copies each of the 27 fields to the field of the same name.
C24_RoundTrip ==
    last.op = "convert"
    => /\ result.snapshot = last.arg.regs
       /\ result.blockBack = last.arg.block
       /\ DOMAIN result.block = CanonicalNames
       /\ DOMAIN result.into = CanonicalNames
       /\ \A n \in CanonicalNames :
             /\ result.block[n] = last.arg.regs[n]
             /\ result.into[n] = last.arg.block[n]

\* a snapshot and a register block whose 27 fields all differ have been
\* converted
C24_Witness ==
    /\ last.op = "convert"
    /\ \A n1, n2 \in CanonicalNames :
          n1 # n2 => /\ last.arg.regs[n1] # last.arg.regs[n2]
                     /\ last.arg.block[n1] # last.arg.block[n2]
    /\ last.arg.regs # last.arg.block
    /\ result.snapshot = last.arg.regs

\* the words of the last command line, and the calls it made
Cmd == last.arg.cmd

Calls == last.arg.calls

\* a string of one or more hexadecimal digits
IsHex(word) == word # << >> /\ \A i \in DOMAIN word : word[i] \in DOMAIN HexDigit

\* the word without a 0x prefix
Unprefixed(word) ==
    IF Len(word) >= 2 /\ word[1] = "0" /\ word[2] = "x"
    THEN SubSeq(word, 3, Len(word)) ELSE word

IsBreak == last.op = "command" /\ Len(Cmd) = 2 /\ Cmd[1] \in {"b", "break"}

\* C25: break takes its argument as a hexadecimal address with or without
\* a 0x prefix, so that b 0xH and b H call breakpoint with the address H;
\* only an argument that is not hexadecimal is looked up as a symbol.
C25_HexEitherWay ==
    IsBreak
    => IF IsHex(Unprefixed(Cmd[2]))
       THEN Calls = << [op |-> "breakpoint", arg |-> HexValue(Unprefixed(Cmd[2]))] >>
       ELSE \A i \in DOMAIN Calls :
               \E k \in DOMAIN last.elf.symtab :
                  /\ last.elf.symtab[k].name = Cmd[2]
                  /\ Calls[i].op = "breakpoint"

\* break calls breakpoint with the address H only for an argument 0xH; any
\* other argument, a hexadecimal one too, is looked up as a symbol
BreakNeedsPrefix ==
    IsBreak
    => IF IsHex(Unprefixed(Cmd[2])) /\ Unprefixed(Cmd[2]) # Cmd[2]
       THEN Calls = << [op |-> "breakpoint", arg |-> HexValue(Unprefixed(Cmd[2]))] >>
       ELSE IF symbol(last.elf.symtab, Cmd[2]).some
       THEN Len(Calls) = 1 /\ Calls[1].op = "breakpoint" /\ last.res # "String"
       ELSE Calls = << >> /\ last.res = "String"

\* C26: a command-level error, like break on a word that is neither an
\* address nor a known symbol, does not end the loop of the shell: the
\* shell goes on to read commands, with the tracee attached and stopped.
C26_ErrorKeepsLoop ==
    (last.op = "command" /\ last.res = "String")
    => phase = "ready" /\ tproc = "traced" /\ wait_status.kind = "Stopped"

\* the lines of the exit message in the output of the last command
ExitLines ==
    { i \in DOMAIN stdout : stdout[i].text = "debugged process exited with status: {}" }

\* what C27 says of the state a command leaves
ExitPrinted ==
    (last.op = "command" /\ wait_status.kind = "Exited")
    => /\ phase = "exited"
       /\ \E i \in ExitLines : ExitLines = {i} /\ stdout[i].val = wait_status.val

UnknownSymbol ==
    /\ last.op = "command" /\ Len(Cmd) = 2
    /\ Cmd[1] \in {"d", "disas", "l", "list", "sym", "symbol", "b", "break"}
    /\ ~symbol(last.elf.symtab, Cmd[2]).some
    /\ ~IsHex(Unprefixed(Cmd[2]))

\* C28: a command given the name of an unknown symbol prints
\* unknown symbol <s> and returns success.
C28_UnknownSymbol ==
    UnknownSymbol
    => /\ last.res = "none"
       /\ stdout = << [text |-> "unknown symbol {}", name |-> Cmd[2], val |-> 0] >>

\* a command given the name of an unknown symbol issues no OS request and
\* leaves the tracee, the snapshot and the table as they are
UnknownSymbolNoEffect ==
    [][UnknownSymbol' => /\ last'.log = << >>
                         /\ UNCHANGED << mem, tregs, tproc, pending, wait_status,
                                         registers, stack, breakpoints, symbols >>]_vars

\* C29: each of s, step, si and stepi makes exactly one step(), each of c
\* and cont exactly one cont(), and none of them is an unknown command.
C29_StepSynonyms ==
    (last.op = "command" /\ Len(Cmd) = 1)
    => /\ Cmd[1] \in {"s", "step", "si", "stepi"}
            => /\ Calls = << [op |-> "step", arg |-> 0] >>
               /\ \A i \in DOMAIN stdout : stdout[i].text # "unknown command {:?}"
       /\ Cmd[1] \in {"c", "cont"}
            => /\ Calls = << [op |-> "cont", arg |-> 0] >>
               /\ \A i \in DOMAIN stdout : stdout[i].text # "unknown command {:?}"

\* the last call was a step or cont in which the breakpoint at a fired, the
\* tracee having executed the 0xCC at a, and was handled
FiredAndHandled(a) ==
    /\ last.op \in Resume /\ last.res = "none" /\ Waited(last)
    /\ last.stopEv = "trap" /\ last.stopRip = a + 1
    /\ a \notin DOMAIN breakpoints /\ tregs.rip = a

\* C30: a breakpoint is one-shot.  After the breakpoint at A has fired and
\* been handled, the next step does not trap at A again; a step or cont
\* does not write 0xCC at an address that is not in the table; and an
\* address enters the table only by breakpoint(A), which leaves 0xCC at A.
C30_OneShot ==
    [][\A a \in Mapped :
          /\ (FiredAndHandled(a) /\ last'.op = "step" /\ Waited(last'))
                => ~(last'.stopEv = "trap" /\ last'.stopRip = a + 1)
          /\ (last'.op \in Resume /\ a \notin DOMAIN breakpoints
                /\ ByteAt(mem, a) # INT3)
                => ByteAt(mem', a) # INT3
          /\ (a \notin DOMAIN breakpoints /\ a \in DOMAIN breakpoints')
                => /\ last'.op = "breakpoint" /\ last'.arg = a
                   /\ ByteAt(mem', a) = INT3]_vars

\* the tracee stands one byte past the trap byte of the armed breakpoint
\* at a, where that trap stopped it
Unhandled(a) ==
    /\ a \in DOMAIN breakpoints
    /\ last.stopEv = "trap" /\ last.stopRip = a + 1
    /\ tregs.rip = a + 1
    /\ ByteAt(mem, a) = INT3

\* the registers were re-read after the wait of the last call
Reread(l) == Len(l.log) >= 3 /\ l.log[3].op = "getregs" /\ l.log[3].ok

\* C31: once a step() or cont() whose wait returned Stopped and whose
\* registers were re-read has returned, whether or not the 16 words of the
\* stack could be read, no stop on an armed breakpoint at A is left
\* unhandled, with the tracee's rip at A + 1, 0xCC still at A and A still
\* in the table.
C31_StopHandled ==
    (last.op \in Resume /\ Waited(last) /\ wait_status.kind = "Stopped"
        /\ Reread(last))
    => \A a \in Mapped : ~Unhandled(a)

\* when every request of the step() or cont() succeeded, no stop on an
\* armed breakpoint is left unhandled
StopHandledOnSuccess ==
    (last.op \in Resume /\ last.res = "none" /\ wait_status.kind = "Stopped")
    => \A a \in Mapped : ~Unhandled(a)

\* C32: after spawn, whatever the load bias, a symbol that is not weak and
\* whose file value is zero still has the value zero, and the symbols
\* whose value differs from the file value are symbols that are not weak
\* and have a nonzero file value.
C32_ZeroValueKept ==
    (last.op = "spawn" /\ phase = "ready")
    => \A i \in DOMAIN symbols :
          LET f == last.elf.symtab[i]
          IN  /\ (f.bind # STB_WEAK /\ f.value = 0) => symbols[i].value = 0
              /\ symbols[i].value # f.value => (f.bind # STB_WEAK /\ f.value # 0)

\* the entries of the document that have a name, a low_pc that is an
\* address and a high_pc that is an unsigned offset or an address
Complete(doc) ==
    { i \in DOMAIN doc :
         /\ doc[i].name # "absent"
         /\ doc[i].low_form = "addr"
         /\ doc[i].high_form \in {"udata", "addr"} }

\* C33: DebugInfo::symbol(name) returns a symbol with that name exactly
\* when a subprogram entry of the file has that name, a DW_AT_low_pc that
\* is an address and a DW_AT_high_pc that is an unsigned offset or an
\* address, whether or not the entry has DW_AT_external.
C33_EveryCompleteEntry ==
    last.op = "DebugInfo::symbol"
    => /\ result.some
             <=> \E i \in Complete(last.arg.doc) : last.arg.doc[i].name = last.arg.name
       /\ result.some => result.val.name = last.arg.name

\* DebugInfo::symbol(name) returns a symbol exactly when an entry of that
\* name was not skipped, and the symbol is made of the last such entry
SymbolOfLastKept ==
    last.op = "DebugInfo::symbol"
    => LET kept == { i \in DOMAIN last.arg.doc :
                        Kept(last.arg.doc[i]) /\ last.arg.doc[i].name = last.arg.name }
       IN  /\ result.some <=> kept # {}
           /\ \A i \in kept :
                 (\A j \in kept : j <= i) => result.val = SymbolOf(last.arg.doc[i])

\* the rows of the file's line program that do not end a sequence and are
\* the last of their address
TableRows ==
    { i \in DOMAIN last.elf.rows :
         /\ ~last.elf.rows[i].end_sequence
         /\ \A j \in DOMAIN last.elf.rows :
               (j > i /\ ~last.elf.rows[j].end_sequence)
                  => last.elf.rows[j].address # last.elf.rows[i].address }

\* C34: after spawn with load bias B, for every row of the line program at
\* file address F, line_info(F + B) returns the LineInfo of that row; and
\* line_info(symbol(name).value), for a relocated function symbol, returns
\* the line of the row at the function's file address.
C34_LineByAbsolutePc ==
    /\ last.op = "line_info"
          => \A i \in TableRows :
                last.arg = last.elf.rows[i].address + LoadBias
                   => /\ result.some
                      /\ result.val.line = last.elf.rows[i].line
    /\ (last.op = "list" /\ symbol(symbols, last.arg).some)
          => \A i \in TableRows :
                last.elf.rows[i].address = last.elf.symtab[1].value
                   => /\ result.some
                      /\ result.val.line = last.elf.rows[i].line

\* line_info(pc) returns the LineInfo of the row at file address pc, and
\* none when the line program has no row at that file address
LineByFileAddress ==
    last.op = "line_info"
    => /\ \A i \in TableRows :
             last.arg = last.elf.rows[i].address
                => result.some /\ result.val.line = last.elf.rows[i].line
       /\ result.some => \E i \in TableRows : last.arg = last.elf.rows[i].address

\* no call after spawn changes the table from program counters to lines
LineTableFixed ==
    [][phase = "ready" => debug_info' = debug_info]_vars

\* every byte of the tracee's memory that differs from the program image
\* is the 0xCC at an address of the breakpoint table
OnlyArmedTraps ==
    \A a \in DOMAIN mem : a \in DOMAIN breakpoints /\ mem[a] = INT3

\* no call takes away the 0xCC of a breakpoint that stays in the table
TrapsKept ==
    \A a \in (DOMAIN breakpoints) \cap (DOMAIN breakpoints') :
       ByteAt(mem, a) = INT3 => ByteAt(mem', a) = INT3

\* C35: as long as no OS request fails, after any sequence of calls every
\* byte of the tracee's memory that differs from the original program
\* image is the 0xCC at an address that is in the breakpoint table, and
\* the restoring of one breakpoint does not erase the 0xCC of another
\* breakpoint that is still in the table.
C35_ImageButTraps ==
    /\ [](nfail = 0 => OnlyArmedTraps)
    /\ [][nfail' = 0 => TrapsKept]_vars

\* C36: no step() or cont() fails in the subtraction rip - 1; when the
\* tracee stopped with rip = 0 and every OS request of the call succeeded,
\* the call returns normally and has restored no breakpoint.
C36_NoUnderflow ==
    last.op \in Resume
    => /\ last.res # "panic"
       /\ (Waited(last) /\ wait_status.kind = "Stopped" /\ last.stopRip = 0
             /\ \A i \in DOMAIN last.log : last.log[i].ok)
             => (last.res = "none" /\ Count(last.log, "poke") = 0)

\* a step() or cont() that does not fail in the subtraction has, at a stop
\* with rip = 0, found no breakpoint
WrappedIsNoHit ==
    (last.op \in Resume /\ last.res # "panic" /\ Waited(last)
        /\ wait_status.kind = "Stopped" /\ last.stopRip = 0)
    => (last.res = "none" <=> \A i \in DOMAIN last.log : last.log[i].ok)
          /\ Count(last.log, "poke") = 0

\* the addresses of the words that overlap the n bytes from a on
Overlapping(a, n) == { a + WordLen * j : j \in 0..(((n + WordLen - 1) \div WordLen) - 1) }

\* C37: read_bytes(A, n) peeks only the ceil(n / 8) words that overlap
\* [A, A + n), never the word at A + 8 * ceil(n / 8); it succeeds when
\* those words are readable, as when the last byte asked for is the last
\* byte of the tracee's readable memory; and read_bytes(A, 0) issues no
\* peek.
C37_PeeksOnlyOverlap ==
    last.op = "read_bytes"
    => LET a == last.arg[1]
           n == last.arg[2]
       IN  /\ \A i \in DOMAIN last.log :
                 last.log[i].op = "peek" /\ last.log[i].arg \in Overlapping(a, n)
           /\ (\A w \in Overlapping(a, n) : WordMapped(w)) => last.res = "none"
           /\ n = 0 => last.log = << >>

\* read_bytes(A, n) peeks the n / 8 + 1 words at A, A + 8, ..., in order,
\* up to the first that cannot be read
PeeksOneMoreWord ==
    last.op = "read_bytes"
    => LET a == last.arg[1]
           n == last.arg[2]
       IN  /\ Len(last.log) <= (n \div WordLen) + 1
           /\ \A i \in DOMAIN last.log :
                 last.log[i].op = "peek" /\ last.log[i].arg = a + WordLen * (i - 1)
           /\ last.res = "none" <=> \A j \in 0..(n \div WordLen) : WordMapped(a + WordLen * j)

\* the values of the AT_ENTRY pairs the kernel gave, in stack order
EntryValues ==
    LET at == SelectSeq(last.img.aux, LAMBDA pair : pair[1] = 9)
    IN  [i \in DOMAIN at |-> at[i][2]]

\* the symbols of the file, those that are not weak shifted by amount
Relocated(amount) ==
    [i \in DOMAIN last.elf.symtab |->
        IF last.elf.symtab[i].bind = STB_WEAK THEN last.elf.symtab[i]
        ELSE [last.elf.symtab[i] EXCEPT !.value = @ + amount]]

\* C38: from the return of spawn on, through every later step, cont,
\* breakpoint and read, the symbols are those of the file shifted a single
\* time by the first AT_ENTRY entry minus the file's entry address, even
\* when the vector has several AT_ENTRY entries, and are those of the file
\* when the vector has no AT_ENTRY entry.
C38_RelocatedOnce ==
    phase = "ready"
    => symbols = IF EntryValues = << >> THEN last.elf.symtab
                 ELSE Relocated(EntryValues[1] - last.elf.entry)

\* a call after a spawn whose vector had two AT_ENTRY entries, the first
\* giving a load bias, has returned
C38_Witness ==
    /\ phase = "ready" /\ last.op \in {"step", "cont", "breakpoint", "read_words"}
    /\ last.res = "none"
    /\ Len(EntryValues) = 2 /\ EntryValues[1] # last.elf.entry
    /\ symbols # last.elf.symtab

\* a call after a spawn whose vector had no AT_ENTRY entry has returned
C38_WitnessNoEntry ==
    /\ phase = "ready" /\ last.op \in {"step", "cont", "breakpoint", "read_words"}
    /\ last.res = "none"
    /\ EntryValues = << >> /\ Len(last.img.aux) > 0
    /\ symbols = last.elf.symtab /\ symbols # << >>

\* the reader has returned: the vector at the AT_NULL pair, or an error
Returned == reader.stage \in {"done", "failed"}

\* a pass that does not end the read moves the cursor up: by 8 bytes over
\* a word of argv or envp, by 16 bytes over a pair
CursorAdvances ==
    /\ (reader.stage \in {"argv", "envp"} /\ reader'.stage # "failed")
          => reader'.addr = reader.addr + WordLen
    /\ (reader.stage = "pairs" /\ reader'.stage = "pairs")
          => reader'.addr = reader.addr + 2 * WordLen
    /\ Returned => reader' = reader

\* the read ended at a null type, or with the Errno of the first peek that
\* left the tracee's readable memory
EndsAtNullOrErrno ==
    /\ reader.stage = "done"
          => (last.res = "none" /\ WordVal(WordAt(mem, reader.addr)) = 0)
    /\ reader.stage = "failed"
          => /\ last.res = "Errno"
             /\ \A i \in DOMAIN last.log :
                   last.log[i].ok <=> WordMapped(last.log[i].arg)
             /\ ~last.log[Len(last.log)].ok
             /\ \A i \in 1..(Len(last.log) - 1) : last.log[i].ok

\* C39: the reader of the auxiliary vector always returns; until it does,
\* each pass moves its cursor up, by 8 bytes per word of argv and envp and
\* by 16 bytes per pair; and it returns either at the AT_NULL pair or with
\* an Errno at the first peek that leaves the tracee's readable memory.
C39_ReaderTerminates ==
    /\ <>Returned
    /\ [][CursorAdvances]_vars
    /\ []EndsAtNullOrErrno

\* the reader has returned the vector after it passed argv pointers, envp
\* pointers and pairs
C39_Witness ==
    /\ reader.stage = "done" /\ Len(reader.auxv) = MaxAux
    /\ reader.addr = registers.rsp + WordLen * (3 + 2 * MaxArgs + 2 * MaxAux)

\* the reader has returned an Errno from the loop over the pairs, at the
\* end of the tracee's memory
C39_WitnessErrno ==
    /\ reader.stage = "failed" /\ Len(reader.auxv) > 0
    /\ last.log[Len(last.log)].arg + WordLen > MemHi

\* what the reader returns pass by pass is what auxv::read returns
WalkIsRead ==
    Returned
    => LET m == auxv_read([Start(0) EXCEPT !.ret = 0])
       IN  /\ reader.stage = "failed" <=> Failed(m)
           /\ reader.stage = "done" => m.ret = reader.auxv

=============================================================================
